---- MODULE Spec2Model ----
(***************************************************************************)
(* GoHexIO: Motorola S-record (package srec) and Intel-hex (package ihex)  *)
(* writers, line decoders, checksum functions and data-record coalescers.  *)
(*                                                                         *)
(* Bytes are integers 0..255, characters are one-character strings, a text *)
(* line is a sequence of characters and a record is                        *)
(* [Address, RecordType, Data].  Unsigned machine integers keep their      *)
(* width: byte arithmetic is taken % 2^8 and uint16 % 2^16; a uint32 is    *)
(* the pair <<high 16 bits, low 16 bits>> and is added to % 2^32.          *)
(***************************************************************************)
EXTENDS Integers, Sequences, FiniteSets, TLC

VARIABLES
    ckBuf,      \* checksum development: the byte sequence under test
    ckSrec,     \* srec calcChecksum(ckBuf)
    ckIhex,     \* ihex calcChecksum(ckBuf)
    ckHexRes,   \* result of srec calcChecksumHexAscii on the last hex text
    coFam,      \* coalescer development: "srec" or "ihex"
    coList,     \* the input record list
    coOut,      \* CoalesceDataRecs(coList), as observed after the call
    coOut2,     \* CoalesceDataRecs(coOut), as observed after the call
    rdLines,    \* reader development: the lines handed to processRecords
    rdRes,      \* processRecords(rdLines)
    rdOut,      \* CoalesceDataRecs of the records read
    iw,         \* ihex writer development: the Writer
    iwSink,     \* the texts written to its io.Writer
    iwHist,     \* the calls made on it, with their arguments and results
    iwRead,     \* the sink read back: ReadFile, then CoalesceDataRecs
    sw,         \* srec writer development: the Writer
    swSink,     \* the texts written to its io.Writer
    swHist,     \* the calls made on it, with their arguments and results
    swRead,     \* the sink read back: ReadFile, then CoalesceDataRecs
    cuFam,      \* corruption development: "srec" or "ihex"
    cuLine,     \* a line that decodeRecord accepts
    cuBad,      \* the line with one character changed
    cuRes,      \* decodeRecord of the changed line
    wl          \* write-loop development: a Write call, one iteration at a time

ckVars == <<ckBuf, ckSrec, ckIhex, ckHexRes>>
coVars == <<coFam, coList, coOut, coOut2>>
rdVars == <<rdLines, rdRes, rdOut>>
iwVars == <<iw, iwSink, iwHist, iwRead>>
swVars == <<sw, swSink, swHist, swRead>>
cuVars == <<cuFam, cuLine, cuBad, cuRes>>
vars == <<ckVars, coVars, rdVars, iwVars, swVars, cuVars, wl>>

-----------------------------------------------------------------------------
(* Machine integer widths *)

ByteMod == 256
U16Mod == 65536

\* uint32 values as two 16-bit limbs <<hi, lo>>, value hi * 2^16 + lo
U32(n) == <<(n \div U16Mod) % U16Mod, n % U16Mod>>
U32Max == <<U16Mod - 1, U16Mod - 1>>

\* x + uint32(n) in uint32 arithmetic, for 0 <= n < 2^30
u32Add(x, n) ==
    LET lo == x[2] + (n % U16Mod)
        hi == x[1] + (n \div U16Mod) + (lo \div U16Mod)
    IN  <<hi % U16Mod, lo % U16Mod>>

\* whether x + n exceeds the uint32 range
u32Carry(x, n) ==
    LET lo == x[2] + (n % U16Mod)
    IN  x[1] + (n \div U16Mod) + (lo \div U16Mod) >= U16Mod

Max(a, b) == IF a >= b THEN a ELSE b
Min(a, b) == IF a <= b THEN a ELSE b

-----------------------------------------------------------------------------
(* encoding/hex as used by both packages *)

HexLower == <<"0","1","2","3","4","5","6","7","8","9","a","b","c","d","e","f">>
HexUpper == <<"0","1","2","3","4","5","6","7","8","9","A","B","C","D","E","F">>

\* hex.EncodeToString: two lower-case digits per byte
EncodeToString(b) ==
    [k \in 1..(2 * Len(b)) |->
        IF k % 2 = 1 THEN HexLower[(b[(k + 1) \div 2] \div 16) + 1]
                     ELSE HexLower[(b[k \div 2] % 16) + 1]]

\* strings.ToUpper on ASCII text
ToUpper(s) ==
    [k \in 1..Len(s) |->
        IF \E d \in 11..16 : HexLower[d] = s[k]
        THEN HexUpper[CHOOSE d \in 11..16 : HexLower[d] = s[k]]
        ELSE s[k]]

\* value of one hex digit, either case; -1 for any other character
FromHexChar(c) ==
    CASE c = "0" -> 0 [] c = "1" -> 1 [] c = "2" -> 2 [] c = "3" -> 3
      [] c = "4" -> 4 [] c = "5" -> 5 [] c = "6" -> 6 [] c = "7" -> 7
      [] c = "8" -> 8 [] c = "9" -> 9
      [] c = "a" \/ c = "A" -> 10 [] c = "b" \/ c = "B" -> 11
      [] c = "c" \/ c = "C" -> 12 [] c = "d" \/ c = "D" -> 13
      [] c = "e" \/ c = "E" -> 14 [] c = "f" \/ c = "F" -> 15
      [] OTHER -> -1

\* hex.DecodeString: an error on odd length or on a non-hex character
DecodeString(s) ==
    IF Len(s) % 2 # 0 \/ \E k \in 1..Len(s) : FromHexChar(s[k]) < 0
    THEN [ok |-> FALSE, bytes |-> <<>>]
    ELSE [ok |-> TRUE,
          bytes |-> [k \in 1..(Len(s) \div 2) |->
                        16 * FromHexChar(s[2 * k - 1]) + FromHexChar(s[2 * k])]]

\* strconv.ParseUint(s, 16, bits) for bits wide enough for Len(s) digits:
\* an error on the empty string or on a non-hex character
RECURSIVE hexValue(_, _, _)
hexValue(s, k, acc) ==
    IF k > Len(s) THEN acc ELSE hexValue(s, k + 1, 16 * acc + FromHexChar(s[k]))

ParseUint(s) ==
    IF Len(s) = 0 \/ \E k \in 1..Len(s) : FromHexChar(s[k]) < 0
    THEN [ok |-> FALSE, val |-> 0]
    ELSE [ok |-> TRUE, val |-> hexValue(s, 1, 0)]

-----------------------------------------------------------------------------
(* Checksum functions *)

\* The range loops are folded left to right in blocks of FoldBlock elements:
\* the additions happen in the order of the source's loop, the evaluation
\* never nests deeper than one block plus the number of blocks.
FoldBlock == 16

\* srec: var cs byte; cs += v wraps at every step
RECURSIVE srec_sumRange(_, _, _, _)
srec_sumRange(b, k, last, cs) ==
    IF k > last THEN cs ELSE srec_sumRange(b, k + 1, last, (cs + b[k]) % ByteMod)

RECURSIVE srec_sumLoop(_, _, _)
srec_sumLoop(b, k, cs) ==
    IF k > Len(b) THEN cs
    ELSE LET last == Min(k + FoldBlock - 1, Len(b))
             c    == srec_sumRange(b, k, last, cs)
         IN  IF c >= 0 THEN srec_sumLoop(b, last + 1, c) ELSE c

\* a faulty variant: the two's complement of the sum, as in package ihex
srec_calcChecksum_two(b) == (ByteMod - srec_sumLoop(b, 1, 0)) % ByteMod

\* return ^cs
srec_calcChecksum(b) == (ByteMod - 1) - srec_sumLoop(b, 1, 0)

\* (0, err) when the text is not hex, else (calcChecksum(bytes), nil)
srec_calcChecksumHexAscii(s) ==
    LET d == DecodeString(s)
    IN  IF ~d.ok THEN [ok |-> FALSE, cs |-> 0]
        ELSE [ok |-> TRUE, cs |-> srec_calcChecksum(d.bytes)]

\* ihex: var cs int; cs += int(b) does not wrap
RECURSIVE ihex_sumRange(_, _, _, _)
ihex_sumRange(buf, k, last, cs) ==
    IF k > last THEN cs ELSE ihex_sumRange(buf, k + 1, last, cs + buf[k])

RECURSIVE ihex_sumLoop(_, _, _)
ihex_sumLoop(buf, k, cs) ==
    IF k > Len(buf) THEN cs
    ELSE LET last == Min(k + FoldBlock - 1, Len(buf))
             c    == ihex_sumRange(buf, k, last, cs)
         IN  IF c >= 0 THEN ihex_sumLoop(buf, last + 1, c) ELSE c

\* return byte(-cs)
ihex_calcChecksum(buf) == (0 - ihex_sumLoop(buf, 1, 0)) % ByteMod
-----------------------------------------------------------------------------
(* Record types *)

\* package srec (S4 is not defined; the zero value of srecType is S0Header)
S0Header == 0
S1Data == 1
S2Data == 2
S3Data == 3
S5Count == 5
S6Count == 6
S7Start == 7
S8Start == 8
S9Start == 9

\* package ihex
Data == 0
EndOfFile == 1

HexRec(a, t, d) == [Address |-> a, RecordType |-> t, Data |-> d]

-----------------------------------------------------------------------------
(* bytes.Buffer as the coalescers use it (nothing is ever read from it, so  *)
(* its read offset stays 0).  The heap is the sequence of backing arrays    *)
(* this buffer has allocated; arr = 0 is the nil slice.  A slice handed out *)
(* by Bytes() is [arr, n]: it keeps pointing at the backing array, which    *)
(* Reset() retains and later Write() calls fill again from index 0.         *)

NewBuffer == [arr |-> 0, len |-> 0, cap |-> 0]

\* Buffer.Reset: buf = buf[:0]; the backing array is kept
bufReset(buf) == [buf EXCEPT !.len = 0]

\* copy(array[l:], p)
copyAt(content, l, p) ==
    [k \in 1..Max(Len(content), l + Len(p)) |->
        IF k > l /\ k <= l + Len(p) THEN p[k - l] ELSE content[k]]

\* Buffer.Write(p) on a buffer h.data with heap h.heap: reslice when the
\* capacity allows it, else allocate (a first small allocation has capacity
\* 64; a later one 2*cap + n) and copy the buffered bytes over.
bufWrite(h, p) ==
    LET b == h.data
        n == Len(p)
    IN  IF b.arr = 0 /\ n = 0 THEN h
        ELSE IF b.arr # 0 /\ b.len + n <= b.cap
        THEN [h EXCEPT !.heap[b.arr] = copyAt(@, b.len, p),
                       !.data.len = b.len + n]
        ELSE LET old == IF b.arr = 0 THEN <<>> ELSE SubSeq(h.heap[b.arr], 1, b.len)
                 c == IF b.arr = 0 /\ n <= 64 THEN 64 ELSE 2 * b.cap + n
             IN  [h EXCEPT !.heap = Append(@, old \o p),
                           !.data = [arr |-> Len(h.heap) + 1,
                                     len |-> b.len + n, cap |-> c]]

\* what a slice [arr, n] shows when it is read
sliceBytes(heap, arr, n) == IF arr = 0 \/ n = 0 THEN <<>> ELSE SubSeq(heap[arr], 1, n)

\* A list entry is either a pointer to an input record (own = TRUE) or a
\* record whose Data is a slice of the accumulation buffer.
ownRec(r) == [own |-> TRUE, rec |-> r]

\* the records of an output list as a caller reads them once the call has returned
observe(outList, heap) ==
    [k \in 1..Len(outList) |->
        IF outList[k].own THEN outList[k].rec
        ELSE HexRec(outList[k].Address, outList[k].RecordType,
                    sliceBytes(heap, outList[k].arr, outList[k].n))]

\* the locals of CoalesceDataRecs as the call starts (zero is the zero
\* value of the address type)
coInit(zero) ==
    [dataRecGroup |-> FALSE, addressCounter |-> zero, outList |-> <<>>,
     data |-> NewBuffer, heap |-> <<>>, dataBaseAddr |-> zero]

-----------------------------------------------------------------------------
(* srec.CoalesceDataRecs *)

srec_emitJumboDataRec(h, pt) ==
    [h EXCEPT !.outList = Append(@, [own |-> FALSE, Address |-> h.dataBaseAddr,
                                     RecordType |-> pt,
                                     arr |-> h.data.arr, n |-> h.data.len]),
              !.data = bufReset(@)]

\* faulty variants of processDataRec: one that
\* joins a record to the open run whatever its address, one that leaves the
\* address counter where the first record of the run put it
srec_processDataRec_anyaddr(h, r, pt) ==
    IF ~h.dataRecGroup
    THEN bufWrite([h EXCEPT !.dataRecGroup = TRUE,
                            !.dataBaseAddr = r.Address,
                            !.addressCounter = u32Add(r.Address, Len(r.Data)),
                            !.data = bufReset(@)],
                  r.Data)
    ELSE [bufWrite(h, r.Data) EXCEPT
             !.addressCounter = u32Add(@, Len(r.Data))]

srec_processDataRec_stale(h, r, pt) ==
    LET open(g) == bufWrite([g EXCEPT !.dataRecGroup = TRUE,
                                      !.dataBaseAddr = r.Address,
                                      !.addressCounter = u32Add(r.Address, Len(r.Data)),
                                      !.data = bufReset(@)],
                            r.Data)
    IN  IF ~h.dataRecGroup THEN open(h)
        ELSE IF r.Address = h.addressCounter THEN bufWrite(h, r.Data)
        ELSE open([srec_emitJumboDataRec(h, pt) EXCEPT !.dataRecGroup = FALSE])

RECURSIVE srec_processDataRec(_, _, _)
srec_processDataRec(h, r, pt) ==
    IF ~h.dataRecGroup
    THEN bufWrite([h EXCEPT !.dataRecGroup = TRUE,
                            !.dataBaseAddr = r.Address,
                            !.addressCounter = u32Add(r.Address, Len(r.Data)),
                            !.data = bufReset(@)],
                  r.Data)
    ELSE IF r.Address = h.addressCounter
    THEN [bufWrite(h, r.Data) EXCEPT
             !.addressCounter = u32Add(@, Len(r.Data))]
    ELSE srec_processDataRec(
             [srec_emitJumboDataRec(h, pt) EXCEPT !.dataRecGroup = FALSE], r, pt)

\* the survey of data record types and the choice of the emitted type
srec_count(list, t) == Cardinality({k \in 1..Len(list) : list[k].RecordType = t})

\* a faulty variant: the type of the first record decides
srec_preferredDataRecType_first(list) ==
    IF Len(list) > 0 /\ list[1].RecordType \in {S1Data, S2Data, S3Data}
    THEN list[1].RecordType ELSE S1Data

srec_preferredDataRecType(list) ==
    IF srec_count(list, S3Data) > 0 THEN S3Data
    ELSE IF srec_count(list, S2Data) > 0 THEN S2Data
    ELSE S1Data

\* the body of the main loop, for one record
srec_loopBody(h, r, pt) ==
    IF r.RecordType \in {S1Data, S2Data, S3Data}
    THEN srec_processDataRec(h, r, pt)
    ELSE LET h1 == IF h.data.len > 0 THEN srec_emitJumboDataRec(h, pt) ELSE h
         IN  [h1 EXCEPT !.dataRecGroup = FALSE,
                        !.outList = Append(@, ownRec(r))]

RECURSIVE srec_loop(_, _, _, _)
srec_loop(h, list, k, pt) ==
    IF k > Len(list) THEN h
    ELSE srec_loop(srec_loopBody(h, list[k], pt), list, k + 1, pt)

\* the state of the call when it returns (output list and heap)
srec_coalesceRun(list) ==
    LET pt == srec_preferredDataRecType(list)
        h == srec_loop(coInit(U32(0)), list, 1, pt)
    IN  IF h.data.len > 0 THEN srec_emitJumboDataRec(h, pt) ELSE h

srec_CoalesceDataRecs(list) ==
    LET h == srec_coalesceRun(list) IN observe(h.outList, h.heap)

-----------------------------------------------------------------------------
(* ihex.CoalesceDataRecs *)

ihex_emitJumboDataRec(h) ==
    [h EXCEPT !.outList = Append(@, [own |-> FALSE, Address |-> h.dataBaseAddr,
                                     RecordType |-> Data,
                                     arr |-> h.data.arr, n |-> h.data.len]),
              !.data = bufReset(@)]

RECURSIVE ihex_processDataRec(_, _)
ihex_processDataRec(h, r) ==
    IF ~h.dataRecGroup
    THEN bufWrite([h EXCEPT !.dataRecGroup = TRUE,
                            !.dataBaseAddr = r.Address,
                            !.addressCounter = (r.Address + Len(r.Data)) % U16Mod,
                            !.data = bufReset(@)],
                  r.Data)
    ELSE IF r.Address = h.addressCounter
    THEN [bufWrite(h, r.Data) EXCEPT
             !.addressCounter = (@ + Len(r.Data)) % U16Mod]
    ELSE ihex_processDataRec(
             [ihex_emitJumboDataRec(h) EXCEPT !.dataRecGroup = FALSE], r)

ihex_loopBody(h, rec) ==
    IF rec.RecordType = Data
    THEN ihex_processDataRec(h, rec)
    ELSE LET h1 == IF h.data.len > 0 THEN ihex_emitJumboDataRec(h) ELSE h
         IN  [h1 EXCEPT !.dataRecGroup = FALSE,
                        !.outList = Append(@, ownRec(rec))]

RECURSIVE ihex_loop(_, _, _)
ihex_loop(h, list, k) ==
    IF k > Len(list) THEN h
    ELSE ihex_loop(ihex_loopBody(h, list[k]), list, k + 1)

ihex_coalesceRun(list) ==
    LET h == ihex_loop(coInit(0), list, 1)
    IN  IF h.data.len > 0 THEN ihex_emitJumboDataRec(h) ELSE h

ihex_CoalesceDataRecs(list) ==
    LET h == ihex_coalesceRun(list) IN observe(h.outList, h.heap)

-----------------------------------------------------------------------------
(* srec.decodeRecord and processRecords.  A result is [err, rec]: err = ""  *)
(* for a nil error.  Slicing past the end of the line panics, and the       *)
(* deferred recover turns the panic into an error.                          *)

NoRec == [Address |-> U32(0), RecordType |-> -1, Data |-> <<>>]

\* r[a:b] of Go, for 0 <= a <= b <= len(r)
Slice(r, a, b) == SubSeq(r, a + 1, b)

\* srecTypeMap[header]: the type for "S0".."S3", "S5".."S9", and the zero
\* value of srecType, which is S0Header, for every other header
srec_srecTypeMap(header) ==
    IF header[1] = "S" /\ header[2] \in {"0","1","2","3","5","6","7","8","9"}
    THEN FromHexChar(header[2])
    ELSE 0

\* the width of the address field, in hex characters; 0 selects the default branch
srec_addrChars(recTyp) ==
    IF recTyp \in {S0Header, S1Data, S5Count, S9Start} THEN 4
    ELSE IF recTyp \in {S2Data, S6Count, S8Start} THEN 6
    ELSE IF recTyp \in {S3Data, S7Start} THEN 8
    ELSE 0

\* uint32(addrBin) of an address field of 4, 6 or 8 hex digits
srec_addrValue(address) ==
    LET n == Len(address)
    IN  <<hexValue(SubSeq(address, 1, n - 4), 1, 0), hexValue(SubSeq(address, n - 3, n), 1, 0)>>

srec_decodeRecord(r) ==
    IF Len(r) < 4 THEN [err |-> "run time panic", rec |-> NoRec]
    ELSE
    LET header == Slice(r, 0, 2)
        byteCount == Slice(r, 2, 4)
        recTyp == srec_srecTypeMap(header)
        csData == Slice(r, 2, Len(r) - 2)
        ac == srec_addrChars(recTyp)
        ovhd == (ac \div 2) + 1
    IN  IF ac = 0 THEN [err |-> "Unknown SREC type", rec |-> NoRec]
        ELSE IF Len(r) < 4 + ac + 2 THEN [err |-> "run time panic", rec |-> NoRec]
        ELSE
        LET address == Slice(r, 4, 4 + ac)
            data0 == Slice(r, 4 + ac, Len(r))
            checksum == Slice(data0, Len(data0) - 2, Len(data0))
            data == Slice(data0, 0, Len(data0) - 2)
            cs == ParseUint(checksum)
            csCalc == srec_calcChecksumHexAscii(csData)
            binData == DecodeString(data)
            addrBin == ParseUint(address)
            bc == ParseUint(byteCount)
        IN  IF ~cs.ok THEN [err |-> "checksum field error", rec |-> NoRec]
            ELSE IF ~csCalc.ok THEN [err |-> "checksummed chars bad", rec |-> NoRec]
            ELSE IF cs.val # csCalc.cs THEN [err |-> "Checksum error", rec |-> NoRec]
            ELSE IF ~binData.ok THEN [err |-> "Data chars bad", rec |-> NoRec]
            ELSE IF ~addrBin.ok THEN [err |-> "Address field error", rec |-> NoRec]
            ELSE IF ~bc.ok THEN [err |-> "Byte-count field error", rec |-> NoRec]
            ELSE IF bc.val # Len(binData.bytes) + ovhd
            THEN [err |-> "byte-count error", rec |-> NoRec]
            ELSE [err |-> "", rec |-> HexRec(srec_addrValue(address), recTyp, binData.bytes)]

\* processRecords: empty lines are skipped; the first error ends the loop with (nil, err)
RECURSIVE srec_processLoop(_, _, _)
srec_processLoop(records, k, hrecs) ==
    IF k > Len(records) THEN [err |-> "", recs |-> hrecs]
    ELSE IF Len(records[k]) > 0
    THEN LET d == srec_decodeRecord(records[k])
         IN  IF d.err # "" THEN [err |-> d.err, recs |-> <<>>]
             ELSE srec_processLoop(records, k + 1, Append(hrecs, d.rec))
    ELSE srec_processLoop(records, k + 1, hrecs)

srec_processRecords(records) == srec_processLoop(records, 1, <<>>)

-----------------------------------------------------------------------------
(* ihex.Writer (src/intel/write.go).  The sink is the sequence of texts     *)
(* written to the io.Writer, one per Fprintf call.  A Writer is             *)
(* [width, addr, fifo]; fifo holds the bytes written and not yet emitted.   *)
(* Every operation returns the writer, the sink and an error ("" is nil);   *)
(* rej >= 0 is the number of sink writes of the call that the sink accepts  *)
(* before it rejects one, rej = -1 a sink that accepts them all.            *)

\* the two bytes of a uint16, big endian
BE16(a) == <<a \div ByteMod, a % ByteMod>>

ihex_NewWriterWidth(width) == [width |-> width, addr |-> 0, fifo |-> <<>>]

\* a faulty variant: SetAddress empties the holding buffer
ihex_SetAddress_clear(x, a) == [x EXCEPT !.addr = a, !.fifo = <<>>]

ihex_SetAddress(x, a) == [x EXCEPT !.addr = a]

\* emitRecord: the binary image of the fields, its checksum, upper-case hex
\* after a colon, and a newline
ihex_emitRecord(sink, image, accept) ==
    IF accept
    THEN [sink |-> Append(sink, <<":">> \o ToUpper(EncodeToString(
                               Append(image, ihex_calcChecksum(image)))) \o <<"\n">>),
          err |-> ""]
    ELSE [sink |-> sink, err |-> "emitRecord: Failure formatting Intel Hex record"]

\* a faulty variant: the address field is written low byte first
ihex_emitDataRecord_le(x, sink, p, accept) ==
    LET e == ihex_emitRecord(sink,
                 <<Len(p) % ByteMod, x.addr % ByteMod, x.addr \div ByteMod, Data>> \o p, accept)
    IN  [x |-> [x EXCEPT !.addr = (@ + Len(p)) % U16Mod], sink |-> e.sink, err |-> e.err]

\* a faulty variant: the address does not advance
ihex_emitDataRecord_noadv(x, sink, p, accept) ==
    LET e == ihex_emitRecord(sink, <<Len(p) % ByteMod>> \o BE16(x.addr) \o <<Data>> \o p, accept)
    IN  IF e.err # "" THEN [x |-> x, sink |-> sink, err |-> "emitDataRecord: " \o e.err]
        ELSE [x |-> x, sink |-> e.sink, err |-> ""]

\* emitDataRecord: byte(len(p)), the address, the type and the data; the
\* address advances only when the record was written
ihex_emitDataRecord(x, sink, p, accept) ==
    LET e == ihex_emitRecord(sink, <<Len(p) % ByteMod>> \o BE16(x.addr) \o <<Data>> \o p, accept)
    IN  IF e.err # "" THEN [x |-> x, sink |-> sink, err |-> "emitDataRecord: " \o e.err]
        ELSE [x |-> [x EXCEPT !.addr = (@ + Len(p)) % U16Mod], sink |-> e.sink, err |-> ""]

\* the emit loop of Write: fifo.Next(width) takes the bytes out of the fifo
\* before the record is emitted
RECURSIVE ihex_writeLoop(_, _, _, _)
ihex_writeLoop(x, sink, xferLen, rej) ==
    IF Len(x.fifo) < x.width THEN [x |-> x, sink |-> sink, n |-> xferLen, err |-> ""]
    ELSE LET p == SubSeq(x.fifo, 1, x.width)
             x1 == [x EXCEPT !.fifo = SubSeq(@, x.width + 1, Len(@))]
             e == ihex_emitDataRecord(x1, sink, p, rej # 0)
         IN  IF e.err # "" THEN [x |-> e.x, sink |-> e.sink, n |-> xferLen, err |-> e.err]
             ELSE ihex_writeLoop(e.x, e.sink, xferLen + x.width,
                                 IF rej > 0 THEN rej - 1 ELSE rej)

\* Write(p): returns (len(p), nil), or (bytes emitted by this call, err)
ihex_Write(x, sink, p, rej) ==
    LET r == ihex_writeLoop([x EXCEPT !.fifo = @ \o p], sink, 0, rej)
    IN  [x |-> r.x, sink |-> r.sink, n |-> IF r.err = "" THEN Len(p) ELSE r.n, err |-> r.err]

\* a faulty variant: Flush emits a record whatever the fifo holds
ihex_Flush_always(x, sink, rej) ==
    ihex_emitDataRecord([x EXCEPT !.fifo = <<>>], sink, x.fifo, rej # 0)

ihex_Flush(x, sink, rej) ==
    IF Len(x.fifo) > 0
    THEN ihex_emitDataRecord([x EXCEPT !.fifo = <<>>], sink, x.fifo, rej # 0)
    ELSE [x |-> x, sink |-> sink, err |-> ""]

\* a faulty variant: Close does not flush the holding buffer
ihex_Close_noflush(x, sink, rej) ==
    LET e == ihex_emitRecord(sink, <<0>> \o BE16(0) \o <<1>>, rej # 0)
    IN  [x |-> x, sink |-> e.sink, err |-> e.err]

\* Close: the error of Flush is dropped; the end-of-file record is written
\* whatever Flush returned
ihex_Close(x, sink, rej) ==
    LET f == ihex_Flush(x, sink, rej)
        used == IF Len(x.fifo) > 0 THEN 1 ELSE 0
        e == ihex_emitRecord(f.sink, <<0>> \o BE16(0) \o <<1>>, rej < 0 \/ rej # used)
    IN  [x |-> f.x, sink |-> e.sink, err |-> e.err]

-----------------------------------------------------------------------------
(* ihex.decodeRecord and ReadFile (src/intel/read.go, lines 247-327).  A   *)
(* result is [err, rec, panic]; panic = TRUE is a run-time panic that      *)
(* nothing recovers.                                                       *)

ihex_NoRec == [Address |-> 0, RecordType |-> -1, Data |-> <<>>]

ihex_decodeRecord(s) ==
    IF Len(s) = 0 THEN [err |-> "Empty record detected", rec |-> ihex_NoRec, panic |-> FALSE]
    ELSE
    LET d == DecodeString(Slice(s, 1, Len(s)))
    IN  IF ~d.ok
        THEN [err |-> "Unable to decode hex record", rec |-> ihex_NoRec, panic |-> FALSE]
        ELSE IF Len(d.bytes) = 0
        THEN [err |-> "index out of range", rec |-> ihex_NoRec, panic |-> TRUE]
        ELSE
        LET checksum == d.bytes[Len(d.bytes)]
            b == SubSeq(d.bytes, 1, Len(d.bytes) - 1)
        IN  IF checksum # ihex_calcChecksum(b)
            THEN [err |-> "Bad checksum detected", rec |-> ihex_NoRec, panic |-> FALSE]
            ELSE IF Len(b) < 1
            THEN [err |-> "Bad field #1 in hex record", rec |-> ihex_NoRec, panic |-> FALSE]
            ELSE IF Len(b) < 3
            THEN [err |-> "Bad field #2 in hex record", rec |-> ihex_NoRec, panic |-> FALSE]
            ELSE IF Len(b) < 4
            THEN [err |-> "Bad field #3 in hex record", rec |-> ihex_NoRec, panic |-> FALSE]
            ELSE LET recLen == b[1]
                 IN  IF Len(b) - 4 < recLen
                     THEN [err |-> "Bad data field in hex record",
                           rec |-> ihex_NoRec, panic |-> FALSE]
                     ELSE [err |-> "", panic |-> FALSE,
                           rec |-> HexRec(b[2] * ByteMod + b[3], b[4],
                                          SubSeq(b, 5, 4 + recLen))]

\* strings.Split(content, "\n") of the concatenated sink
RECURSIVE Concat(_)
Concat(chunks) == IF chunks = <<>> THEN <<>> ELSE Head(chunks) \o Concat(Tail(chunks))

SplitLines(content) ==
    LET nl == {k \in 1..Len(content) : content[k] = "\n"}
        pos(j) == IF j = 0 THEN 0
                  ELSE IF j > Cardinality(nl) THEN Len(content) + 1
                  ELSE CHOOSE k \in nl : Cardinality({i \in nl : i < k}) = j - 1
    IN  [j \in 1..(Cardinality(nl) + 1) |-> SubSeq(content, pos(j - 1) + 1, pos(j) - 1)]

\* the loop of ReadFile: empty lines are skipped; the first error ends the
\* loop with (nil, err)
RECURSIVE ihex_readLoop(_, _, _)
ihex_readLoop(records, k, hrecs) ==
    IF k > Len(records) THEN [err |-> "", recs |-> hrecs, panic |-> FALSE]
    ELSE IF Len(records[k]) > 0
    THEN LET d == ihex_decodeRecord(records[k])
         IN  IF d.err # "" THEN [err |-> d.err, recs |-> <<>>, panic |-> d.panic]
             ELSE ihex_readLoop(records, k + 1, Append(hrecs, d.rec))
    ELSE ihex_readLoop(records, k + 1, hrecs)

ihex_ReadFile(content) == ihex_readLoop(SplitLines(content), 1, <<>>)

-----------------------------------------------------------------------------
(* srec.Writer.  A Writer is the record of the fields of the struct; the   *)
(* uint32 fields addr, count and startAddr are limb pairs, header is        *)
(* [nil, bytes].  The sink is the sequence of texts written to the          *)
(* io.Writer, one per Fprintln call.  Operations return the writer, the     *)
(* sink and an error ("" is nil); rej is as for the ihex Writer.            *)

Addr16 == 16
Addr24 == 24
Addr32 == 32

\* the byte 0 as printed by %c, when no case of the address-mode switch ran
NulChar == "NUL"

\* what is left of rej after one write to the sink
NextRej(rej) == IF rej >= 0 THEN rej - 1 ELSE -1

srec_NewWriter(aMode) ==
    [addr |-> U32(0), count |-> U32(0), fin |-> FALSE, fifo |-> <<>>,
     emitCountRec |-> FALSE, emitStartRec |-> FALSE, startAddr |-> U32(0),
     addrMode |-> aMode, width |-> 10,
     header |-> [nil |-> TRUE, bytes |-> <<>>], headerEmitted |-> FALSE]

srec_SetStartAddress(x, a) == [x EXCEPT !.startAddr = a, !.emitStartRec = TRUE]
srec_SetAddrMode(x, m) == [x EXCEPT !.addrMode = m]
srec_SetCountEmit(x) == [x EXCEPT !.emitCountRec = TRUE]
srec_SetHeader(x, h) == [x EXCEPT !.header = [nil |-> FALSE, bytes |-> h]]

\* SetWidth: the setter of the record width that TestLoopback calls
srec_SetWidth(x, w) == [x EXCEPT !.width = w]

\* uint32 to four bytes, big endian
bigEndianBin(x) == <<x[1] \div ByteMod, x[1] % ByteMod, x[2] \div ByteMod, x[2] % ByteMod>>

\* the tail of every emit function: the image and its checksum as lower-case
\* hex after "S" and the type character, written with Fprintln
srec_println(sink, recTyp, image, accept) ==
    IF accept
    THEN [sink |-> Append(sink, <<"S", recTyp>> \o
                       EncodeToString(Append(image, srec_calcChecksum(image))) \o <<"\n">>),
          err |-> ""]
    ELSE [sink |-> sink, err |-> "write error"]

srec_emitHeaderRecord(x, sink, accept) ==
    srec_println(sink, "0",
        <<((Len(x.header.bytes) % ByteMod) + 3) % ByteMod, 0, 0>> \o x.header.bytes, accept)

\* a faulty variant: the address advances although the record was not written
srec_emitDataRecord_adverr(x, sink, p, accept) ==
    LET addr == bigEndianBin(x.addr)
        n == Len(p) % ByteMod
        head == CASE x.addrMode = Addr16 -> <<(n + 3) % ByteMod>> \o SubSeq(addr, 3, 4)
                  [] x.addrMode = Addr24 -> <<(n + 4) % ByteMod>> \o SubSeq(addr, 2, 4)
                  [] x.addrMode = Addr32 -> <<(n + 4) % ByteMod>> \o addr
                  [] OTHER -> <<>>
        recTyp == CASE x.addrMode = Addr16 -> "1"
                    [] x.addrMode = Addr24 -> "2"
                    [] x.addrMode = Addr32 -> "3"
                    [] OTHER -> NulChar
        e == srec_println(sink, recTyp, head \o p, accept)
    IN  IF e.err # "" THEN [x |-> [x EXCEPT !.addr = u32Add(@, Len(p))], sink |-> sink, err |-> e.err]
        ELSE [x |-> [x EXCEPT !.addr = u32Add(@, Len(p)), !.count = u32Add(@, 1)],
              sink |-> e.sink, err |-> ""]

\* emitDataRecord: the length byte is byte(len(p)) + 3 for Addr16 and
\* byte(len(p)) + 4 for both Addr24 and Addr32; addr and count advance only
\* when the record was written
srec_emitDataRecord(x, sink, p, accept) ==
    LET addr == bigEndianBin(x.addr)
        n == Len(p) % ByteMod
        head == CASE x.addrMode = Addr16 -> <<(n + 3) % ByteMod>> \o SubSeq(addr, 3, 4)
                  [] x.addrMode = Addr24 -> <<(n + 4) % ByteMod>> \o SubSeq(addr, 2, 4)
                  [] x.addrMode = Addr32 -> <<(n + 4) % ByteMod>> \o addr
                  [] OTHER -> <<>>
        recTyp == CASE x.addrMode = Addr16 -> "1"
                    [] x.addrMode = Addr24 -> "2"
                    [] x.addrMode = Addr32 -> "3"
                    [] OTHER -> NulChar
        e == srec_println(sink, recTyp, head \o p, accept)
    IN  IF e.err # "" THEN [x |-> x, sink |-> sink, err |-> e.err]
        ELSE [x |-> [x EXCEPT !.addr = u32Add(@, Len(p)), !.count = u32Add(@, 1)],
              sink |-> e.sink, err |-> ""]

\* a faulty variant: the count record is always the two-byte one
srec_emitCountRecord_s5(x, sink, accept) ==
    srec_println(sink, "5", <<2 + 1>> \o SubSeq(bigEndianBin(x.count), 3, 4), accept)

srec_emitCountRecord(x, sink, accept) ==
    LET bigFile == x.count[1] > 0
        c == bigEndianBin(x.count)
    IN  IF bigFile THEN srec_println(sink, "6", <<3 + 1>> \o SubSeq(c, 2, 4), accept)
        ELSE srec_println(sink, "5", <<2 + 1>> \o SubSeq(c, 3, 4), accept)

srec_emitStartAddrRec(x, sink, accept) ==
    LET addr == bigEndianBin(x.startAddr)
    IN  CASE x.addrMode = Addr16 -> srec_println(sink, "9", <<3>> \o SubSeq(addr, 3, 4), accept)
          [] x.addrMode = Addr24 -> srec_println(sink, "8", <<4>> \o SubSeq(addr, 2, 4), accept)
          [] x.addrMode = Addr32 -> srec_println(sink, "7", <<5>> \o addr, accept)
          [] OTHER -> srec_println(sink, NulChar, <<>>, accept)

\* the emit loop of Write: fifo.Next(width) takes the bytes out of the fifo
\* before the record is emitted
RECURSIVE srec_writeLoop(_, _, _, _)
srec_writeLoop(x, sink, writeCount, rej) ==
    IF Len(x.fifo) < x.width THEN [x |-> x, sink |-> sink, n |-> writeCount, err |-> ""]
    ELSE LET p == SubSeq(x.fifo, 1, x.width)
             x1 == [x EXCEPT !.fifo = SubSeq(@, x.width + 1, Len(@))]
             e == srec_emitDataRecord(x1, sink, p, rej # 0)
         IN  IF e.err # "" THEN [x |-> e.x, sink |-> e.sink, n |-> writeCount, err |-> e.err]
             ELSE srec_writeLoop(e.x, e.sink, writeCount + x.width, NextRej(rej))

\* Write(p): (0, "Writer closed") on a closed writer; the header record goes
\* out before the first data and its error is dropped; returns (len(p), nil),
\* or (bytes emitted by this call, err)
\* a faulty variant: Write does not look at fin
srec_Write_nofin(x, sink, p, rej) ==
    LET hdr == ~x.header.nil /\ ~x.headerEmitted
        x1 == IF hdr THEN [x EXCEPT !.headerEmitted = TRUE] ELSE x
        s1 == IF hdr THEN srec_emitHeaderRecord(x1, sink, rej # 0).sink ELSE sink
        rej1 == IF hdr THEN NextRej(rej) ELSE rej
        r == srec_writeLoop([x1 EXCEPT !.fifo = @ \o p], s1, 0, rej1)
    IN  [x |-> r.x, sink |-> r.sink,
         n |-> IF r.err = "" THEN Len(p) ELSE r.n, err |-> r.err]

srec_Write(x, sink, p, rej) ==
    IF x.fin THEN [x |-> x, sink |-> sink, n |-> 0, err |-> "Writer closed"]
    ELSE LET hdr == ~x.header.nil /\ ~x.headerEmitted
             x1 == IF hdr THEN [x EXCEPT !.headerEmitted = TRUE] ELSE x
             s1 == IF hdr THEN srec_emitHeaderRecord(x1, sink, rej # 0).sink ELSE sink
             rej1 == IF hdr THEN NextRej(rej) ELSE rej
             r == srec_writeLoop([x1 EXCEPT !.fifo = @ \o p], s1, 0, rej1)
         IN  [x |-> r.x, sink |-> r.sink,
              n |-> IF r.err = "" THEN Len(p) ELSE r.n, err |-> r.err]

\* a faulty variant: Flush emits the pending bytes but the first
srec_Flush_short(x, sink, rej) ==
    IF Len(x.fifo) > 0
    THEN srec_emitDataRecord([x EXCEPT !.fifo = <<>>], sink, Tail(x.fifo), rej # 0)
    ELSE [x |-> x, sink |-> sink, err |-> ""]

srec_Flush(x, sink, rej) ==
    IF Len(x.fifo) > 0
    THEN srec_emitDataRecord([x EXCEPT !.fifo = <<>>], sink, x.fifo, rej # 0)
    ELSE [x |-> x, sink |-> sink, err |-> ""]

\* a faulty variant: SetAddress does not flush
srec_SetAddress_noflush(x, sink, a, rej) ==
    [x |-> [x EXCEPT !.addr = a], sink |-> sink, err |-> ""]

\* SetAddress: Flush, its error dropped, then the new address
srec_SetAddress(x, sink, a, rej) ==
    LET f == srec_Flush(x, sink, rej)
    IN  [x |-> [f.x EXCEPT !.addr = a], sink |-> f.sink, err |-> ""]

\* a faulty variant: the start-address record is written before the count record
srec_Close_startfirst(x, sink, rej) ==
    IF x.fin THEN [x |-> x, sink |-> sink, err |-> "Writer already closed"]
    ELSE
    LET f == srec_Flush(x, sink, rej)
        s == IF f.x.emitStartRec THEN srec_emitStartAddrRec(f.x, f.sink, TRUE)
             ELSE [sink |-> f.sink, err |-> ""]
        c == IF f.x.emitCountRec THEN srec_emitCountRecord(f.x, s.sink, TRUE)
             ELSE [sink |-> s.sink, err |-> ""]
    IN  [x |-> [f.x EXCEPT !.fin = TRUE], sink |-> c.sink, err |-> f.err]

\* a faulty variant: Close does not look at fin
srec_Close_nofin(x, sink, rej) ==
    LET f == srec_Flush(x, sink, rej)
        c == IF f.x.emitCountRec THEN srec_emitCountRecord(f.x, f.sink, TRUE)
             ELSE [sink |-> f.sink, err |-> ""]
        s == IF f.x.emitStartRec THEN srec_emitStartAddrRec(f.x, c.sink, TRUE)
             ELSE [sink |-> c.sink, err |-> ""]
    IN  [x |-> [f.x EXCEPT !.fin = TRUE], sink |-> s.sink, err |-> f.err]

\* Close: fin is set by the deferred function on every path but the first
srec_Close(x, sink, rej) ==
    IF x.fin THEN [x |-> x, sink |-> sink, err |-> "Writer already closed"]
    ELSE
    LET f == srec_Flush(x, sink, rej)
        rej1 == IF Len(x.fifo) > 0 THEN NextRej(rej) ELSE rej
        c == IF f.x.emitCountRec THEN srec_emitCountRecord(f.x, f.sink, rej1 # 0)
             ELSE [sink |-> f.sink, err |-> ""]
        rej2 == IF f.x.emitCountRec THEN NextRej(rej1) ELSE rej1
        s == IF f.x.emitStartRec THEN srec_emitStartAddrRec(f.x, c.sink, rej2 # 0)
             ELSE [sink |-> c.sink, err |-> ""]
        done == [f.x EXCEPT !.fin = TRUE]
    IN  IF f.err # "" THEN [x |-> done, sink |-> f.sink, err |-> f.err]
        ELSE IF c.err # "" THEN [x |-> done, sink |-> c.sink, err |-> c.err]
        ELSE [x |-> done, sink |-> s.sink, err |-> s.err]

\* srec.ReadFile on the text of a file: loadFile splits it at the newlines
srec_ReadFile(content) == srec_processRecords(SplitLines(content))
-----------------------------------------------------------------------------
(* The lines of TestProcessRecords and TestCoalesceDataRecs *)

TestLineS0 ==
    <<"S","0","0","F","0","0","0","0","6","8","6","5","6","C","6","C","6",
      "F","2","0","2","0","2","0","2","0","2","0","0","0","0","0","3","C">>

TestLineS1a ==
    <<"S","1","1","F","0","0","0","0","7","C","0","8","0","2","A","6","9",
      "0","0","1","0","0","0","4","9","4","2","1","F","F","F","0","7","C",
      "6","C","1","B","7","8","7","C","8","C","2","3","7","8","3","C","6",
      "0","0","0","0","0","3","8","6","3","0","0","0","0","2","6">>

TestLineS1b ==
    <<"S","1","1","F","0","0","1","C","4","B","F","F","F","F","E","5","3",
      "9","8","0","0","0","0","0","7","D","8","3","6","3","7","8","8","0",
      "0","1","0","0","1","4","3","8","2","1","0","0","1","0","7","C","0",
      "8","0","3","A","6","4","E","8","0","0","0","2","0","E","9">>

TestLineS1c ==
    <<"S","1","1","1","0","0","3","8","4","8","6","5","6","C","6","C","6",
      "F","2","0","7","7","6","F","7","2","6","C","6","4","2","E","0","A",
      "0","0","4","2">>

TestLineS5 ==
    <<"S","5","0","3","0","0","0","3","F","9">>

TestLineS9 ==
    <<"S","9","0","3","0","0","0","0","F","C">>

-----------------------------------------------------------------------------
(* The developments share one state: each leaves the others' variables at  *)
(* these values.                                                            *)

ckIdle ==
    /\ ckBuf = <<>>
    /\ ckSrec = srec_calcChecksum(<<>>)
    /\ ckIhex = ihex_calcChecksum(<<>>)
    /\ ckHexRes = [text |-> <<>>, ok |-> TRUE, cs |-> srec_calcChecksumHexAscii(<<>>).cs]
coIdle == coFam = "srec" /\ coList = <<>> /\ coOut = <<>> /\ coOut2 = <<>>
rdIdle == rdLines = <<>> /\ rdRes = [err |-> "", recs |-> <<>>] /\ rdOut = <<>>
NotRead == [done |-> FALSE, err |-> "", panic |-> FALSE, recs |-> <<>>, out |-> <<>>]
iwIdle == iw = ihex_NewWriterWidth(16) /\ iwSink = <<>> /\ iwHist = <<>> /\ iwRead = NotRead

swIdle == sw = srec_NewWriter(Addr16) /\ swSink = <<>> /\ swHist = <<>> /\ swRead = NotRead
cuIdle == cuFam = "srec" /\ cuLine = <<>> /\ cuBad = <<>> /\ cuRes = [done |-> FALSE, err |-> "", rec |-> NoRec]
wlIdle == wl = [fam |-> "ihex", x |-> ihex_NewWriterWidth(16), pc |-> "idle", rej |-> -1,
                n |-> 0, err |-> "", calls |-> 0, emitted |-> 0]
-----------------------------------------------------------------------------
(* Coalescer development: the input list grows one record at a time and    *)
(* every state holds CoalesceDataRecs of the list and of its own result.   *)

MaxRecs == 3

\* addresses of the address type of each family: 0, 1 and the highest one
CoAddrs(fam) == IF fam = "srec" THEN {U32(0), U32(1), U32Max} ELSE {0, 1, U16Mod - 1}

CoPayloads == {<<>>, <<1>>, <<2, 3>>}

CoRecs(fam) ==
    IF fam = "srec"
    THEN {HexRec(a, t, d) : a \in CoAddrs(fam),
                            t \in {S1Data, S2Data, S3Data}, d \in CoPayloads}
         \cup {HexRec(U32(0), S9Start, <<>>), HexRec(U32(1), S5Count, <<>>),
               HexRec(U32(0), S0Header, <<7>>)}
    ELSE {HexRec(a, Data, d) : a \in CoAddrs(fam), d \in CoPayloads}
         \cup {HexRec(0, EndOfFile, <<>>), HexRec(0, 4, <<0, 1>>)}

Coalesce(fam, list) ==
    IF fam = "srec" THEN srec_CoalesceDataRecs(list) ELSE ihex_CoalesceDataRecs(list)

CoInit ==
    /\ coFam \in {"srec", "ihex"}
    /\ coList = <<>>
    /\ coOut = <<>>
    /\ coOut2 = <<>>
    /\ ckIdle /\ rdIdle /\ iwIdle /\ swIdle /\ cuIdle /\ wlIdle

CoAppend ==
    /\ Len(coList) < MaxRecs
    /\ \E r \in CoRecs(coFam) :
         /\ coList' = Append(coList, r)
         /\ coOut' = Coalesce(coFam, coList')
         /\ coOut2' = Coalesce(coFam, coOut')
    /\ UNCHANGED <<coFam, ckVars, rdVars, iwVars, swVars, cuVars, wl>>

CoNext == CoAppend

SpecCoalesce == CoInit /\ [][CoNext]_vars

-----------------------------------------------------------------------------
(* What section 4.3 of the specification asks of the coalescer, written    *)
(* without the accumulation buffer: the maximal runs of the input list.    *)

IsDataRec(fam, r) ==
    IF fam = "srec" THEN r.RecordType \in {S1Data, S2Data, S3Data}
    ELSE r.RecordType = Data

\* a + n in the address arithmetic of the family
AddrAdd(fam, a, n) == IF fam = "srec" THEN u32Add(a, n) ELSE (a + n) % U16Mod

\* the list as a sequence of items, each a maximal run of address-contiguous
\* Data records (base address, concatenated payload) or one non-Data record
RECURSIVE RunsFrom(_, _, _, _, _)
RunsFrom(fam, list, k, items, open) ==
    IF k > Len(list) THEN items
    ELSE LET r == list[k]
             n == Len(items)
         IN  IF ~IsDataRec(fam, r)
             THEN RunsFrom(fam, list, k + 1,
                           Append(items, [isRun |-> FALSE, rec |-> r]), FALSE)
             ELSE IF open /\ r.Address = AddrAdd(fam, items[n].Address, Len(items[n].Data))
             THEN RunsFrom(fam, list, k + 1,
                           [items EXCEPT ![n].Data = @ \o r.Data], TRUE)
             ELSE RunsFrom(fam, list, k + 1,
                           Append(items, [isRun |-> TRUE, Address |-> r.Address,
                                          Data |-> r.Data]), TRUE)

Runs(fam, list) == RunsFrom(fam, list, 1, <<>>, FALSE)

\* the indices k..Len(flags) at which the Boolean sequence flags is TRUE, in order
RECURSIVE SelectIdx(_, _)
SelectIdx(flags, k) ==
    IF k > Len(flags) THEN <<>>
    ELSE IF flags[k] THEN <<k>> \o SelectIdx(flags, k + 1)
    ELSE SelectIdx(flags, k + 1)

\* the elements of s at the indices where flags is TRUE, in order
Select(s, flags) ==
    LET idx == SelectIdx(flags, 1) IN [j \in 1..Len(idx) |-> s[idx[j]]]

\* the Data records of a record list, in order
DataRecsOf(fam, list) == Select(list, [k \in 1..Len(list) |-> IsDataRec(fam, list[k])])

\* the non-Data records of a record list, in order
NonDataRecsOf(fam, list) == Select(list, [k \in 1..Len(list) |-> ~IsDataRec(fam, list[k])])

\* the runs of a record list, in order
RunItemsOf(fam, list) ==
    LET rs == Runs(fam, list) IN Select(rs, [k \in 1..Len(rs) |-> rs[k].isRun])

\* the non-empty payloads of a sequence of records or runs, in order
NonEmptyPayloads(s) ==
    LET ne == Select(s, [k \in 1..Len(s) |-> Len(s[k].Data) > 0])
    IN  [j \in 1..Len(ne) |-> ne[j].Data]

\* for a Boolean sequence (TRUE: a run or Data record, FALSE: a non-Data
\* record): for each FALSE entry, the number of TRUE entries before it
RunsBeforeNonData(flags) ==
    LET idx == SelectIdx([k \in 1..Len(flags) |-> ~flags[k]], 1)
    IN  [j \in 1..Len(idx) |-> Cardinality({i \in 1..(idx[j] - 1) : flags[i]})]

-----------------------------------------------------------------------------
(* Claims on CoalesceDataRecs, under SpecCoalesce *)

\* C3: content preservation.  The payloads of the merged Data records, read
\* after CoalesceDataRecs has returned, are the concatenated payloads of the
\* input runs, in order (empty payloads left aside): no byte is dropped,
\* duplicated or overwritten, also with two or more runs.
C3_ContentPreserved ==
    NonEmptyPayloads(DataRecsOf(coFam, coOut)) = NonEmptyPayloads(RunItemsOf(coFam, coList))

\* C4: contiguity.  No two adjacent output records are Data records with the
\* second one at the first one's address plus payload length.  The sum is
\* taken in the address type's arithmetic, which covers the sum as integers.
C4_NoAdjacentContiguous ==
    \A k \in 1..(Len(coOut) - 1) :
        (IsDataRec(coFam, coOut[k]) /\ IsDataRec(coFam, coOut[k + 1]))
            => coOut[k + 1].Address # AddrAdd(coFam, coOut[k].Address, Len(coOut[k].Data))

\* C4 witness: a merge has happened and two Data records are adjacent in the output
C4_Witness ==
    /\ Len(coList) = 3
    /\ Len(coOut) = 2
    /\ IsDataRec(coFam, coOut[1]) /\ IsDataRec(coFam, coOut[2])
    /\ Len(coOut[1].Data) = 3

\* C5: idempotence.  Coalescing the coalesced list gives the same list,
\* record for record (type, address, payload).
C5_Idempotent == coOut2 = coOut

\* C6: non-Data records pass through unchanged: they are the same records in
\* the same order, each has as many Data records before it in the output as
\* it has data runs before it in the input, and an input without Data
\* records is returned as it is.
C6_NonDataPassThrough ==
    /\ NonDataRecsOf(coFam, coOut) = NonDataRecsOf(coFam, coList)
    /\ LET rs == Runs(coFam, coList)
       IN  RunsBeforeNonData([k \in 1..Len(coOut) |-> IsDataRec(coFam, coOut[k])])
             = RunsBeforeNonData([k \in 1..Len(rs) |-> rs[k].isRun])
    /\ (DataRecsOf(coFam, coList) = <<>>) => coOut = coList

\* C8: only exactly contiguous records are merged: the output Data records
\* are, one for one and in order, the maximal contiguous runs of the input,
\* each at its run's base address with its run's length.
C8_OneRecordPerRun ==
    LET outs == DataRecsOf(coFam, coOut)
        runs == RunItemsOf(coFam, coList)
    IN  /\ Len(outs) = Len(runs)
        /\ \A j \in 1..Len(outs) :
              /\ outs[j].Address = runs[j].Address
              /\ Len(outs[j].Data) = Len(runs[j].Data)

\* C9: every Data record srec.CoalesceDataRecs emits has the same type: S3Data
\* if the input holds an S3Data record, else S2Data if it holds an S2Data
\* record, else S1Data.
C9_PreferredType ==
    coFam = "srec" =>
        LET has(t) == \E k \in 1..Len(coList) : coList[k].RecordType = t
            want == IF has(S3Data) THEN S3Data ELSE IF has(S2Data) THEN S2Data ELSE S1Data
        IN  \A k \in 1..Len(coOut) :
                IsDataRec(coFam, coOut[k]) => coOut[k].RecordType = want

\* C9 witness: a run of S1Data records only is emitted as S2Data because a
\* later record of the input is S2Data
C9_Witness ==
    /\ coFam = "srec"
    /\ Len(coList) = 3
    /\ coList[1].RecordType = S1Data /\ Len(coList[1].Data) > 0
    /\ coList[2].RecordType = S9Start
    /\ coList[3].RecordType = S2Data /\ Len(coList[3].Data) > 0
    /\ Len(coOut) = 3
    /\ coOut[1].RecordType = S2Data


\* the k-th input record is a Data record that continues no Data record
\* before it and is continued by no Data record after it
Isolated(k) ==
    /\ IsDataRec(coFam, coList[k])
    /\ k > 1 =>
         ~(/\ IsDataRec(coFam, coList[k - 1])
           /\ coList[k].Address =
                AddrAdd(coFam, coList[k - 1].Address, Len(coList[k - 1].Data)))
    /\ k < Len(coList) =>
         ~(/\ IsDataRec(coFam, coList[k + 1])
           /\ coList[k + 1].Address =
                AddrAdd(coFam, coList[k].Address, Len(coList[k].Data)))

\* C32: a Data record that is contiguous with no neighbouring Data record
\* (alone, between non-Data records, or last) is re-emitted: the output
\* holds a Data record with its address and its payload, also when the
\* payload is empty.
C32_IsolatedReemitted ==
    \A k \in 1..Len(coList) :
        Isolated(k) =>
            \E j \in 1..Len(coOut) :
                /\ IsDataRec(coFam, coOut[j])
                /\ coOut[j].Address = coList[k].Address
                /\ coOut[j].Data = coList[k].Data

\* the places of an input list where a Data record does not start at the
\* integer address the Data record before it ends at
IntBreaks(list) ==
    {k \in 2..Len(list) : list[k].Address # list[k - 1].Address + Len(list[k - 1].Data)}

\* C37: ihex CoalesceDataRecs merges two consecutive Data records only if
\* next.address = prev.address + len(prev.payload) as integers, with no
\* 16-bit wrap-around: of a list of Data records with non-empty payloads it
\* returns one record more than the list has such breaks, so a record at
\* 0x0000 after a run that ends at 0xFFFF stays a record of its own.
C37_NoWrapMerge ==
    (/\ coFam = "ihex"
     /\ coList # <<>>
     /\ \A k \in 1..Len(coList) : coList[k].RecordType = Data /\ Len(coList[k].Data) > 0) =>
        Len(coOut) = 1 + Cardinality(IntBreaks(coList))
-----------------------------------------------------------------------------
(* Checksum development: a byte sequence grows one byte at a time, or is   *)
(* taken from a hex text, and every state holds both checksums of it.      *)

MaxCkLen == 3

CkBytes == {0, 1, 127, 128, 255}

\* the body of TestChecksumCalc, and two texts hex.DecodeString rejects
CkTestBody ==
    <<"1","3","7","A","F","0","0","A","0","A","0","D","0","0","0","0","0","0","0",
      "0","0","0","0","0","0","0","0","0","0","0","0","0","0","0","0","0","0","0">>

CkHexTexts == {CkTestBody, <<"1","3","7">>, <<"1","G">>, <<"f","f","0","1">>}

CkInit ==
    /\ ckIdle
    /\ coIdle /\ rdIdle /\ iwIdle /\ swIdle /\ cuIdle /\ wlIdle

CkAppend ==
    /\ Len(ckBuf) < MaxCkLen
    /\ \E v \in CkBytes :
         /\ ckBuf' = Append(ckBuf, v)
         /\ ckSrec' = srec_calcChecksum(ckBuf')
         /\ ckIhex' = ihex_calcChecksum(ckBuf')
    /\ UNCHANGED <<ckHexRes, coVars, rdVars, iwVars, swVars, cuVars, wl>>

CkHexText ==
    /\ \E s \in CkHexTexts :
         LET res == srec_calcChecksumHexAscii(s)
         IN  /\ ckHexRes' = [text |-> s, ok |-> res.ok, cs |-> res.cs]
             /\ ckBuf' = DecodeString(s).bytes
             /\ ckSrec' = srec_calcChecksum(ckBuf')
             /\ ckIhex' = ihex_calcChecksum(ckBuf')
    /\ UNCHANGED <<coVars, rdVars, iwVars, swVars, cuVars, wl>>

CkNext == CkAppend \/ CkHexText

SpecChecksum == CkInit /\ [][CkNext]_vars

\* the sum of a byte sequence, as an integer
RECURSIVE ByteSum(_)
ByteSum(b) == IF b = <<>> THEN 0 ELSE Head(b) + ByteSum(Tail(b))

\* C10: the Intel-hex checksum is (256 - (sum mod 256)) mod 256, so that sum
\* plus checksum is 0 mod 256; the S-record checksum is 255 - (sum mod 256),
\* so that sum plus checksum is 255 mod 256; the body of TestChecksumCalc
\* gives 0x61.
C10_Checksums ==
    LET sum == ByteSum(ckBuf)
    IN  /\ ckIhex = (256 - (sum % 256)) % 256
        /\ (sum + ckIhex) % 256 = 0
        /\ ckSrec = 255 - (sum % 256)
        /\ (sum + ckSrec) % 256 = 255
        /\ ckHexRes.ok => ckHexRes.cs = 255 - (ByteSum(DecodeString(ckHexRes.text).bytes) % 256)
        /\ ckHexRes.text = CkTestBody => (ckHexRes.ok /\ ckHexRes.cs = 6 * 16 + 1)

\* C10 witness: the checksums of the test body, whose byte sum exceeds 255
C10_Witness ==
    /\ ckHexRes.text = CkTestBody
    /\ ckBuf = DecodeString(CkTestBody).bytes
    /\ ByteSum(ckBuf) > 255
    /\ ckSrec = 6 * 16 + 1

-----------------------------------------------------------------------------
(* ihex writer development: a Writer of some width takes SetAddress, Write, *)
(* Flush and Close calls; after a Close the sink may be read back with      *)
(* ReadFile and CoalesceDataRecs.                                          *)

MaxCalls == 3
MaxWidth == 3

\* the width NewWriter gives
DefaultWidth == 16

\* record widths: small ones, NewWriter's, and the two around the range of
\* the length byte
IwWidths == 1..MaxWidth \cup {DefaultWidth, ByteMod - 1, ByteMod}

IwAddrs == {4660, U16Mod - 1}

IwSmallPayloads == {<<>>, <<1>>, <<2, 3>>, <<4, 5, 6, 7>>}

\* a payload of 256 bytes, for the wide records
IwBigPayload == [k \in 1..ByteMod |-> (7 * k) % ByteMod]

\* a payload of 40 bytes, two records and a half of NewWriter's width
IwMidPayload == [k \in 1..40 |-> 100 + k]

IwPayloads(width) ==
    IwSmallPayloads \cup (IF width >= ByteMod - 1 THEN {IwBigPayload} ELSE {})
                    \cup (IF width = DefaultWidth THEN {IwMidPayload} ELSE {})

\* the sink accepts every write of a call (-1) or rejects the first one (0);
\* a call that cannot reach the sink is made with the accepting one only
IwRejects == {-1, 0}
IwRejectsIf(pending) == IF pending THEN IwRejects ELSE {-1}

Call(op, arg, rej, n, err) == [op |-> op, arg |-> arg, rej |-> rej, n |-> n, err |-> err]

IwInit ==
    /\ \E width \in IwWidths : iw = ihex_NewWriterWidth(width)
    /\ iwSink = <<>>
    /\ iwHist = <<>>
    /\ iwRead = NotRead
    /\ ckIdle /\ coIdle /\ rdIdle /\ swIdle /\ cuIdle /\ wlIdle

IwOpen == Len(iwHist) < MaxCalls /\ ~iwRead.done

IwSetAddress ==
    /\ IwOpen
    /\ \E a \in IwAddrs :
         /\ iw' = ihex_SetAddress(iw, a)
         /\ iwHist' = Append(iwHist, Call("SetAddress", a, -1, 0, ""))
    /\ UNCHANGED <<iwSink, iwRead, ckVars, coVars, rdVars, swVars, cuVars, wl>>

IwWrite ==
    /\ IwOpen
    /\ \E p \in IwPayloads(iw.width) :
       \E rej \in IwRejectsIf(Len(iw.fifo) + Len(p) >= iw.width) :
         LET r == ihex_Write(iw, iwSink, p, rej)
         IN  /\ iw' = r.x
             /\ iwSink' = r.sink
             /\ iwHist' = Append(iwHist, Call("Write", p, rej, r.n, r.err))
    /\ UNCHANGED <<iwRead, ckVars, coVars, rdVars, swVars, cuVars, wl>>

IwFlush ==
    /\ IwOpen
    /\ \E rej \in IwRejectsIf(Len(iw.fifo) > 0) :
         LET r == ihex_Flush(iw, iwSink, rej)
         IN  /\ iw' = r.x
             /\ iwSink' = r.sink
             /\ iwHist' = Append(iwHist, Call("Flush", <<>>, rej, 0, r.err))
    /\ UNCHANGED <<iwRead, ckVars, coVars, rdVars, swVars, cuVars, wl>>

IwClose ==
    /\ IwOpen
    /\ \E rej \in IwRejects :
         LET r == ihex_Close(iw, iwSink, rej)
         IN  /\ iw' = r.x
             /\ iwSink' = r.sink
             /\ iwHist' = Append(iwHist, Call("Close", <<>>, rej, 0, r.err))
    /\ UNCHANGED <<iwRead, ckVars, coVars, rdVars, swVars, cuVars, wl>>

\* the caller reads the file back once the Writer is closed
IwReadBack ==
    /\ ~iwRead.done
    /\ Len(iwHist) > 0 /\ iwHist[Len(iwHist)].op = "Close"
    /\ LET r == ihex_ReadFile(Concat(iwSink))
       IN  iwRead' = [done |-> TRUE, err |-> r.err, panic |-> r.panic, recs |-> r.recs,
                      out |-> ihex_CoalesceDataRecs(r.recs)]
    /\ UNCHANGED <<iw, iwSink, iwHist, ckVars, coVars, rdVars, swVars, cuVars, wl>>

IwNext == IwSetAddress \/ IwWrite \/ IwFlush \/ IwClose \/ IwReadBack

SpecIhexWriter == IwInit /\ [][IwNext]_vars

\* the calls of a history without their results
IwOps == [k \in 1..Len(iwHist) |-> <<iwHist[k].op, iwHist[k].arg, iwHist[k].rej>>]

\* the state after Write(B), Close on a fresh Writer set to base address a,
\* with a sink that accepted every write, read back
IwRoundTrip(a, B) ==
    /\ iwRead.done
    /\ \/ a = 0 /\ IwOps = <<<<"Write", B, -1>>, <<"Close", <<>>, -1>>>>
       \/ IwOps = <<<<"SetAddress", a, -1>>, <<"Write", B, -1>>, <<"Close", <<>>, -1>>>>

\* C2 as claimed: for every width >= 1, every base address and every non-empty
\* B, Write(B), Close, decodeRecord on every line and CoalesceDataRecs yield
\* exactly [Data record at the base address with payload B, EndOfFile record].
C2_RoundTripAnyWidth ==
    \A a \in IwAddrs \cup {0}, B \in IwPayloads(iw.width) \ {<<>>} :
        IwRoundTrip(a, B) =>
            /\ iwRead.err = ""
            /\ iwRead.out = <<HexRec(a, Data, B), HexRec(0, EndOfFile, <<>>)>>

\* C2 amended: the same for every width from 1 to 255, the widths whose
\* record length fits the one-byte length field.
C2_RoundTrip ==
    \A a \in IwAddrs \cup {0}, B \in IwPayloads(iw.width) \ {<<>>} :
        (IwRoundTrip(a, B) /\ iw.width < ByteMod) =>
            /\ iwRead.err = ""
            /\ iwRead.out = <<HexRec(a, Data, B), HexRec(0, EndOfFile, <<>>)>>

\* C2 witness: four bytes written at 0xFFFF with width 3 come back as one
\* Data record, merged from a full record and a runt across the address wrap
C2_Witness ==
    /\ iw.width = 3
    /\ IwRoundTrip(U16Mod - 1, <<4, 5, 6, 7>>)
    /\ Len(iwSink) = 3
    /\ Len(iwRead.recs) = 3
    /\ iwRead.out = <<HexRec(U16Mod - 1, Data, <<4, 5, 6, 7>>), HexRec(0, EndOfFile, <<>>)>>

-----------------------------------------------------------------------------
(* srec reader development: a file is a list of lines, as strings.Split    *)
(* leaves them; processRecords decodes it and CoalesceDataRecs merges the  *)
(* decoded records.                                                        *)

MaxLines == 4

\* TestLineS1a with its last checksum digit changed
BadChecksumLine == [TestLineS1a EXCEPT ![Len(TestLineS1a)] = "7"]

RdCorpus == {<<>>, TestLineS0, TestLineS1a, TestLineS1b, TestLineS1c, TestLineS9,
             BadChecksumLine}

RdInit == rdIdle /\ ckIdle /\ coIdle /\ iwIdle /\ swIdle /\ cuIdle /\ wlIdle

\* one more line in the file, then processRecords and CoalesceDataRecs on it
RdAppend ==
    /\ Len(rdLines) < MaxLines
    /\ \E line \in RdCorpus :
         LET records == Append(rdLines, line)
             res == srec_processRecords(records)
         IN  /\ rdLines' = records
             /\ rdRes' = res
             /\ rdOut' = srec_CoalesceDataRecs(res.recs)
    /\ UNCHANGED <<ckVars, coVars, iwVars, swVars, cuVars, wl>>

RdNext == RdAppend

SpecRead == RdInit /\ [][RdNext]_vars

\* the payload bytes of a corpus line with a 16-bit address
PayloadOf(line) == DecodeString(SubSeq(line, 9, Len(line) - 2)).bytes

\* the two lines of TestCoalesceDataRecs, as the test's Split leaves them
\* (with an empty first and last line) or alone
RdScenario ==
    rdLines \in {<<TestLineS1a, TestLineS1c>>, <<<<>>, TestLineS1a, TestLineS1c, <<>>>>}

\* C7 as claimed: the two lines coalesce to exactly one merged Data record at
\* base address 0x0000 whose payload spans both input payloads.
C7_OneMergedRecord ==
    RdScenario =>
        /\ rdRes.err = ""
        /\ Len(rdOut) = 1
        /\ rdOut[1].Address = U32(0)
        /\ rdOut[1].Data = PayloadOf(TestLineS1a) \o PayloadOf(TestLineS1c)

\* C7 amended: the second line is at 0x0038, not at 0x0000 + 28 = 0x001C, so
\* the two lines decode without error and coalesce to exactly two S1 Data
\* records, of 28 bytes at 0x0000 and of 14 bytes at 0x0038, the latter with
\* the payload of the second line.
C7_TwoRecords ==
    RdScenario =>
        /\ rdRes.err = ""
        /\ Len(rdRes.recs) = 2
        /\ Len(rdOut) = 2
        /\ rdOut[1].RecordType = S1Data /\ rdOut[2].RecordType = S1Data
        /\ rdOut[1].Address = U32(0) /\ Len(rdOut[1].Data) = 28
        /\ rdOut[2].Address = U32(56) /\ Len(rdOut[2].Data) = 14
        /\ rdOut[2].Data = PayloadOf(TestLineS1c)

\* C7 witness: the test's four-element list has been decoded and coalesced
C7_Witness ==
    /\ rdLines = <<<<>>, TestLineS1a, TestLineS1c, <<>>>>
    /\ rdRes.err = ""
    /\ Len(rdOut) = 2
    /\ rdOut[2].Address = U32(56)
-----------------------------------------------------------------------------
(* srec writer development: a Writer of some address mode takes setter,    *)
(* Write, Flush and Close calls; after a Close the sink may be read back    *)
(* with ReadFile and CoalesceDataRecs.                                      *)

MaxSwCalls == 3

\* the widths given to SetWidth; without it the width is NewWriter's 10
SwWidths == {1, 3}

\* base addresses: one that fits 16 bits, one that does not
SwAddrs == {U32(4096), <<1, U16Mod - 1>>}

SwHeader == <<72, 105>>

SwLongPayload == <<10, 11, 12, 13, 14, 15, 16, 17, 18, 19, 20>>

SwPayloads(width) ==
    {<<>>, <<1>>, <<2, 3, 4, 5>>} \cup (IF width > 3 THEN {SwLongPayload} ELSE {})

\* the sink accepts every write of a call (-1) or rejects the first one (0);
\* a call that cannot reach the sink is made with the accepting one only
SwRejects(pending) == IF pending THEN {-1, 0} ELSE {-1}

\* the next Write is the one that emits the header record
SwHeaderDue == ~sw.header.nil /\ ~sw.headerEmitted

SwInit ==
    /\ \E aMode \in {Addr16, Addr24, Addr32} : sw = srec_NewWriter(aMode)
    /\ swSink = <<>>
    /\ swHist = <<>>
    /\ swRead = NotRead
    /\ ckIdle /\ coIdle /\ rdIdle /\ iwIdle /\ cuIdle /\ wlIdle

\* SetWidth and SetAddrMode are made first; SetWidth, and a SetCountEmit made
\* before every call but SetWidth, do not count as calls
SwPreset ==
    LET w == IF Len(swHist) > 0 /\ swHist[1].op = "SetWidth" THEN 1 ELSE 0
    IN  IF Len(swHist) > w /\ swHist[w + 1].op = "SetCountEmit" THEN w + 1 ELSE w

SwCalls == Len(swHist) - SwPreset

SwOpen == SwCalls < MaxSwCalls /\ ~swRead.done

SwFrame(x, sink, call) ==
    /\ sw' = x
    /\ swSink' = sink
    /\ swHist' = Append(swHist, call)
    /\ UNCHANGED <<swRead, ckVars, coVars, rdVars, iwVars, cuVars, wl>>

SwSetWidth ==
    /\ swHist = <<>> /\ ~swRead.done
    /\ \E w \in SwWidths :
         SwFrame(srec_SetWidth(sw, w), swSink, Call("SetWidth", w, -1, 0, ""))

SwSetAddrMode ==
    /\ swHist = <<>> /\ SwOpen
    /\ \E m \in {Addr16, Addr24, Addr32} \ {sw.addrMode} :
         SwFrame(srec_SetAddrMode(sw, m), swSink, Call("SetAddrMode", m, -1, 0, ""))

SwSetHeader ==
    /\ SwOpen /\ sw.header.nil
    /\ SwFrame(srec_SetHeader(sw, SwHeader), swSink, Call("SetHeader", SwHeader, -1, 0, ""))

SwSetCountEmit ==
    /\ SwOpen /\ ~sw.emitCountRec
    /\ SwFrame(srec_SetCountEmit(sw), swSink, Call("SetCountEmit", <<>>, -1, 0, ""))

SwSetStartAddress ==
    /\ SwOpen /\ ~sw.emitStartRec
    /\ \E a \in {U32(4096)} :
         SwFrame(srec_SetStartAddress(sw, a), swSink, Call("SetStartAddress", a, -1, 0, ""))

SwSetAddress ==
    /\ SwOpen
    /\ \E a \in SwAddrs, rej \in SwRejects(Len(sw.fifo) > 0) :
         LET r == srec_SetAddress(sw, swSink, a, rej)
         IN  SwFrame(r.x, r.sink, Call("SetAddress", a, rej, 0, r.err))

SwWrite ==
    /\ SwOpen
    /\ \E p \in SwPayloads(sw.width) :
       \E rej \in SwRejects(~sw.fin /\ (SwHeaderDue \/ Len(sw.fifo) + Len(p) >= sw.width)) :
         LET r == srec_Write(sw, swSink, p, rej)
         IN  SwFrame(r.x, r.sink, Call("Write", p, rej, r.n, r.err))

SwFlush ==
    /\ SwOpen
    /\ \E rej \in SwRejects(Len(sw.fifo) > 0) :
         LET r == srec_Flush(sw, swSink, rej)
         IN  SwFrame(r.x, r.sink, Call("Flush", <<>>, rej, 0, r.err))

SwClose ==
    /\ SwOpen
    /\ \E rej \in SwRejects(~sw.fin /\ (Len(sw.fifo) > 0 \/ sw.emitCountRec \/ sw.emitStartRec)) :
         LET r == srec_Close(sw, swSink, rej)
         IN  SwFrame(r.x, r.sink, Call("Close", <<>>, rej, 0, r.err))

\* the caller reads the file back once the Writer is closed
SwReadBack ==
    /\ ~swRead.done
    /\ Len(swHist) > 0 /\ swHist[Len(swHist)].op = "Close"
    /\ LET r == srec_ReadFile(Concat(swSink))
       IN  swRead' = [done |-> TRUE, err |-> r.err, panic |-> FALSE, recs |-> r.recs,
                      out |-> srec_CoalesceDataRecs(r.recs)]
    /\ UNCHANGED <<sw, swSink, swHist, ckVars, coVars, rdVars, iwVars, cuVars, wl>>

SwNext ==
    \/ SwSetWidth \/ SwSetAddrMode \/ SwSetHeader \/ SwSetCountEmit
    \/ SwSetStartAddress \/ SwSetAddress \/ SwWrite \/ SwFlush \/ SwClose
    \/ SwReadBack

SpecSrecWriter == SwInit /\ [][SwNext]_vars

\* the calls of a history without their results
SwOps == [k \in 1..Len(swHist) |-> <<swHist[k].op, swHist[k].arg, swHist[k].rej>>]

\* the state after Write(B), Close on a fresh Writer of any width set to
\* base address a, with a sink that accepted every write, read back
SwRoundTrip(a, B) ==
    LET core == <<<<"Write", B, -1>>, <<"Close", <<>>, -1>>>>
        based == IF a = U32(0) THEN core ELSE <<<<"SetAddress", a, -1>>>> \o core
    IN  /\ swRead.done
        /\ \/ SwOps = based
           \/ \E w \in SwWidths : SwOps = <<<<"SetWidth", w, -1>>>> \o based

\* C1: for every address mode, every width >= 1, every base address and every
\* non-empty B, Write(B), Close, processRecords on the emitted lines and
\* CoalesceDataRecs succeed and yield exactly one data record, with payload B
\* at the base address.
C1_RoundTrip ==
    \A a \in SwAddrs \cup {U32(0)}, B \in SwPayloads(sw.width) \ {<<>>} :
        SwRoundTrip(a, B) =>
            /\ swRead.err = ""
            /\ Len(swRead.out) = 1
            /\ swRead.out[1].RecordType \in {S1Data, S2Data, S3Data}
            /\ swRead.out[1].Address = a
            /\ swRead.out[1].Data = B
-----------------------------------------------------------------------------
(* Corruption development: a line that decodeRecord accepts has one of its *)
(* characters changed and is decoded again.                                *)

\* the line emitRecord writes for a record image, without its newline
IhexLine(image) ==
    LET t == ihex_emitRecord(<<>>, image, TRUE).sink[1] IN SubSeq(t, 1, Len(t) - 1)

\* accepted lines: four lines of the srec tests; a Data record at 0x0010
\* with the bytes AB CD and the end-of-file record for ihex
CuLines(fam) ==
    IF fam = "srec" THEN {TestLineS0, TestLineS1c, TestLineS5, TestLineS9}
    ELSE {IhexLine(<<2, 0, 16, Data, 171, 205>>), IhexLine(<<0, 0, 0, EndOfFile>>)}

\* the characters put in place of one character of the line
CuChars == {"0", "1", "2", "4", "9", "A", "a", "B", "b", "C", "c", "F", "f",
            "S", "X", ":", "g"}

\* decodeRecord of either package, as [done, err, rec]
CuDecode(fam, line) ==
    IF fam = "srec"
    THEN LET d == srec_decodeRecord(line) IN [done |-> TRUE, err |-> d.err, rec |-> d.rec]
    ELSE LET d == ihex_decodeRecord(line) IN [done |-> TRUE, err |-> d.err, rec |-> d.rec]

\* the error each decoder returns for a checksum that does not match
ChecksumMismatch(fam) == IF fam = "srec" THEN "Checksum error" ELSE "Bad checksum detected"

CuInit == cuIdle /\ ckIdle /\ coIdle /\ rdIdle /\ iwIdle /\ swIdle /\ wlIdle

\* one line is taken, changed and decoded
CuCorrupt ==
    /\ ~cuRes.done
    /\ \E fam \in {"srec", "ihex"} :
         \E L \in {l \in CuLines(fam) : CuDecode(fam, l).err = ""} :
           \E k \in 1..Len(L), c \in CuChars :
             LET bad == [L EXCEPT ![k] = c]
             IN  /\ c # L[k]
                 /\ cuFam' = fam
                 /\ cuLine' = L
                 /\ cuBad' = bad
                 /\ cuRes' = CuDecode(fam, bad)
    /\ UNCHANGED <<ckVars, coVars, rdVars, iwVars, swVars, wl>>

CuNext == CuCorrupt

SpecCorrupt == CuInit /\ [][CuNext]_vars

\* C11: every line obtained from an accepted line by changing exactly one
\* character (the marker, the type digit and the case of a hex digit
\* included) is rejected by decodeRecord with the checksum-mismatch error.
C11_CorruptionDetected ==
    cuRes.done => cuRes.err = ChecksumMismatch(cuFam)
-----------------------------------------------------------------------------
(* Claims on the calls made to an srec Writer after and at its Close.       *)

\* the last call made, and whether the call now made is one of op
SwLast == swHist[Len(swHist)]
SwCall(op) == Len(swHist') = Len(swHist) + 1 /\ swHist'[Len(swHist')].op = op

\* Close has been called, whatever it returned
SwClosed == \E k \in 1..Len(swHist) : swHist[k].op = "Close"

\* C12: once Close has been called on an srec Writer, every later Close
\* returns the error "Writer already closed" and writes nothing to the sink.
C12_SecondCloseRejected ==
    [][(SwClosed /\ SwCall("Close")) =>
          /\ swHist'[Len(swHist')].err = "Writer already closed"
          /\ swSink' = swSink]_vars

\* C12 witness: a second Close on a Writer that was to emit a count record,
\* and emitted it at the first Close, has been rejected
C12_Witness ==
    /\ Len(swHist) >= 2
    /\ SwLast.op = "Close" /\ SwLast.err = "Writer already closed"
    /\ swHist[Len(swHist) - 1].op = "Close" /\ swHist[Len(swHist) - 1].err = ""
    /\ sw.emitCountRec
    /\ Len(swSink) = 1

\* C13: once Close has been called, every Write returns (0, error), writes
\* nothing to the sink and leaves the Writer (holding buffer, address, record
\* count, headerEmitted) as it was.
C13_WriteAfterCloseRejected ==
    [][(SwClosed /\ SwCall("Write")) =>
          /\ swHist'[Len(swHist')].n = 0
          /\ swHist'[Len(swHist')].err # ""
          /\ swSink' = swSink
          /\ sw' = sw]_vars

\* C13 witness: a Write of one byte after Close on a Writer of width 1 whose
\* header was set and never emitted has been rejected
C13_Witness ==
    /\ SwClosed
    /\ SwLast.op = "Write" /\ SwLast.arg = <<1>> /\ SwLast.err = "Writer closed"
    /\ sw.width = 1
    /\ ~sw.header.nil /\ ~sw.headerEmitted
    /\ swSink = <<>>

\* C15: once Close has been called on an srec Writer, a call to Flush is
\* rejected with an error.
C15_FlushAfterCloseRejected ==
    \A k \in 1..Len(swHist) :
        swHist[k].op = "Close" =>
            \A j \in (k + 1)..Len(swHist) : swHist[j].op = "Flush" => swHist[j].err # ""

\* the lines of the sink that are header records, and those that are data records
SwHeaderLines == {i \in 1..Len(swSink) : swSink[i][2] = "0"}
SwDataLines == {i \in 1..Len(swSink) : swSink[i][2] \in {"1", "2", "3"}}

\* the history is a sequence of calls ending with the first Close, made with
\* a sink that accepted every write
SwRunToClose ==
    /\ Len(swHist) > 0 /\ SwLast.op = "Close"
    /\ \A k \in 1..Len(swHist) : swHist[k].rej = -1
    /\ \A k \in 1..(Len(swHist) - 1) : swHist[k].op # "Close"

\* C19: if SetHeader was called at any point before Close, the stream of a
\* sequence of calls ending with Close holds exactly one S0 header record, and
\* it precedes every Data record.
C19_HeaderOnceFirst ==
    (SwRunToClose /\ \E k \in 1..Len(swHist) : swHist[k].op = "SetHeader") =>
        /\ Cardinality(SwHeaderLines) = 1
        /\ \A i \in SwHeaderLines, j \in SwDataLines : i < j

\* the record type digits of the lines a call has added to the sink
SwAddedTypes == [i \in 1..(Len(swSink') - Len(swSink)) |-> swSink'[Len(swSink) + i][2]]

SwSetterCalled(op) == \E k \in 1..Len(swHist) : swHist[k].op = op

\* the type digits of the data record and of the start-address record of a mode
DataDigit(aMode) == CASE aMode = Addr16 -> "1" [] aMode = Addr24 -> "2" [] aMode = Addr32 -> "3"
StartDigit(aMode) == CASE aMode = Addr16 -> "9" [] aMode = Addr24 -> "8" [] aMode = Addr32 -> "7"

\* C20: the first Close of an srec Writer marks it closed; when the sink
\* accepts every write it adds to the stream, in this order and nothing else,
\* one runt Data record holding the pending bytes iff the holding buffer is
\* not empty, one count record (S5, the count being below 65536) iff
\* SetCountEmit was called, and one
\* start-address record (S9, S8, S7 for Addr16, Addr24, Addr32) iff
\* SetStartAddress was called.
C20_CloseOrder ==
    [][(~sw.fin /\ SwCall("Close")) =>
          /\ sw'.fin
          /\ swHist'[Len(swHist')].rej = -1 =>
               /\ SubSeq(swSink', 1, Len(swSink)) = swSink
               /\ SwAddedTypes =
                     (IF Len(sw.fifo) > 0 THEN <<DataDigit(sw.addrMode)>> ELSE <<>>)
                  \o (IF SwSetterCalled("SetCountEmit") THEN <<"5">> ELSE <<>>)
                  \o (IF SwSetterCalled("SetStartAddress") THEN <<StartDigit(sw.addrMode)>> ELSE <<>>)
               /\ Len(sw.fifo) > 0 =>
                     Len(swSink'[Len(swSink) + 1]) =
                         2 + 2 * (1 + sw.addrMode \div 8 + Len(sw.fifo) + 1) + 1
               /\ swHist'[Len(swHist')].err = ""]_vars

\* C20 witness: a Close with one byte pending, after SetCountEmit and
\* SetStartAddress, has written a runt, a count record and a start-address
\* record, the last three lines of the stream
C20_Witness ==
    /\ SwRunToClose
    /\ sw.fin /\ sw.emitCountRec /\ sw.emitStartRec
    /\ \E k \in 1..Len(swHist) : swHist[k].op = "Write" /\ swHist[k].arg = <<1>>
    /\ sw.width = 10
    /\ Len(swSink) = 3
    /\ <<swSink[1][2], swSink[2][2], swSink[3][2]>> \in {<<"1", "5", "9">>, <<"2", "5", "8">>, <<"3", "5", "7">>}
-----------------------------------------------------------------------------
(* Claims on the calls made to an ihex Writer.                              *)

\* the text of the end-of-file record as Close writes it
IwEofText == ihex_emitRecord(<<>>, <<0, 0, 0, EndOfFile>>, TRUE).sink[1]

\* C14: after a Close of an ihex Writer has returned, the end-of-file record
\* is the last line of the stream, every later Write, Flush or Close returns
\* an error, and no further record is emitted (no second end-of-file record).
C14_CloseTerminal ==
    \A k \in 1..Len(iwHist) :
        (iwHist[k].op = "Close" /\ iwHist[k].err = "") =>
            /\ \A j \in (k + 1)..Len(iwHist) :
                   iwHist[j].op \in {"Write", "Flush", "Close"} => iwHist[j].err # ""
            /\ Len(iwSink) > 0 /\ iwSink[Len(iwSink)] = IwEofText
            /\ Cardinality({i \in 1..Len(iwSink) : iwSink[i] = IwEofText}) = 1

\* the text of a Data record of len payload bytes: the colon, the hex digits
\* of length, address, type 00, payload and checksum, and the newline
IsDataText(t, len) ==
    /\ Len(t) = 1 + 2 * (1 + 2 + 1 + len + 1) + 1
    /\ t[1] = ":" /\ t[8] = "0" /\ t[9] = "0"

\* C18: for every width w and a single Write of n bytes on a fresh ihex
\* Writer followed by Close, the stream holds exactly n div w Data records of
\* w bytes, then one runt of n mod w bytes iff n mod w is not 0, then the
\* end-of-file record as its last line; with w = 16 and n = 40 these are two
\* 16-byte records, an 8-byte runt and the end-of-file record.
C18_RecordCount ==
    \A B \in IwPayloads(iw.width) :
        IwOps = <<<<"Write", B, -1>>, <<"Close", <<>>, -1>>>> =>
            LET full == Len(B) \div iw.width
                runt == Len(B) % iw.width
            IN  /\ Len(iwSink) = full + (IF runt # 0 THEN 1 ELSE 0) + 1
                /\ \A i \in 1..full : IsDataText(iwSink[i], iw.width)
                /\ runt # 0 => IsDataText(iwSink[full + 1], runt)
                /\ iwSink[Len(iwSink)] = IwEofText
                /\ (iw.width = 16 /\ Len(B) = 40) =>
                       /\ Len(iwSink) = 4
                       /\ IsDataText(iwSink[1], 16) /\ IsDataText(iwSink[2], 16)
                       /\ IsDataText(iwSink[3], 8)

\* C18 witness: 40 bytes written to a Writer of width 16 and closed
C18_Witness ==
    /\ iw.width = DefaultWidth
    /\ IwOps = <<<<"Write", IwMidPayload, -1>>, <<"Close", <<>>, -1>>>>
    /\ Len(iwSink) = 4
    /\ <<Len(iwSink[1]), Len(iwSink[2]), Len(iwSink[3])>> = <<44, 44, 28>>
    /\ iwSink[4] = IwEofText
-----------------------------------------------------------------------------
(* Both Writer families in one development: a run is made on an ihex        *)
(* Writer or on an srec Writer, the other one left as constructed.          *)

WrInit == IwInit \/ SwInit

\* the calls of a run on an ihex Writer, the srec Writer never used
WrIhex ==
    /\ swIdle
    /\ \/ IwSetAddress \/ IwWrite \/ IwFlush \/ IwClose \/ IwReadBack

\* the calls of a run on an srec Writer, the ihex Writer never used
WrSrec ==
    /\ iwIdle
    /\ \/ SwSetWidth \/ SwSetAddrMode \/ SwSetHeader \/ SwSetCountEmit
       \/ SwSetStartAddress \/ SwSetAddress \/ SwWrite \/ SwFlush \/ SwClose
       \/ SwReadBack

WrNext == WrIhex \/ WrSrec

SpecWriters == WrInit /\ [][WrNext]_vars

\* the last call made on the ihex Writer, and whether the call now made is one of op
IwLast == iwHist[Len(iwHist)]
IwCall(op) == Len(iwHist') = Len(iwHist) + 1 /\ iwHist'[Len(iwHist')].op = op

\* C16: Flush on an empty holding buffer, in both Writer families, returns
\* nil, writes nothing to the sink and leaves the Writer (address, record
\* count) as it was; a Flush right after a Flush writes nothing.
C16_FlushEmptyNoOp ==
    [][/\ (IwCall("Flush") /\ Len(iw.fifo) = 0) =>
             iwHist'[Len(iwHist')].err = "" /\ iwSink' = iwSink /\ iw' = iw
       /\ (SwCall("Flush") /\ Len(sw.fifo) = 0) =>
             swHist'[Len(swHist')].err = "" /\ swSink' = swSink /\ sw' = sw
       /\ (IwCall("Flush") /\ Len(iwHist) > 0 /\ IwLast.op = "Flush") => iwSink' = iwSink
       /\ (SwCall("Flush") /\ Len(swHist) > 0 /\ SwLast.op = "Flush") => swSink' = swSink]_vars

\* C16 witness: an ihex Writer has flushed a runt and then flushed again,
\* the stream still holding the one record
C16_Witness ==
    /\ Len(iwHist) = 3
    /\ iwHist[1].op = "Write" /\ iwHist[1].arg = <<1>>
    /\ iwHist[2].op = "Flush" /\ iwHist[2].err = ""
    /\ iwHist[3].op = "Flush" /\ iwHist[3].err = ""
    /\ iw.width > 1
    /\ Len(iwSink) = 1

\* the text of an srec Data record of len payload bytes in an address mode
IsSrecDataText(t, aMode, len) ==
    /\ Len(t) = 2 + 2 * (1 + aMode \div 8 + len + 1) + 1
    /\ t[1] = "S" /\ t[2] = DataDigit(aMode)

\* C17: on an open Writer of either family with a sink that accepts every
\* write, Write(p) with k bytes pending returns (len(p), nil), emits exactly
\* (k + len(p)) div width Data records of width payload bytes each, advances
\* the address by width per record and leaves (k + len(p)) mod width bytes
\* pending, fewer than width.
C17_WriteAccounting ==
    [][/\ (IwCall("Write") /\ iwHist'[Len(iwHist')].rej = -1) =>
             LET call == iwHist'[Len(iwHist')]
                 all == iw.fifo \o call.arg
                 recs == Len(all) \div iw.width
             IN  /\ call.n = Len(call.arg) /\ call.err = ""
                 /\ Len(iwSink') = Len(iwSink) + recs
                 /\ SubSeq(iwSink', 1, Len(iwSink)) = iwSink
                 /\ \A i \in 1..recs : IsDataText(iwSink'[Len(iwSink) + i], iw.width)
                 /\ iw'.addr = (iw.addr + recs * iw.width) % U16Mod
                 /\ iw'.fifo = SubSeq(all, recs * iw.width + 1, Len(all))
                 /\ Len(iw'.fifo) = Len(all) % iw.width
                 /\ Len(iw'.fifo) < iw.width
       /\ (SwCall("Write") /\ ~sw.fin /\ swHist'[Len(swHist')].rej = -1) =>
             LET call == swHist'[Len(swHist')]
                 all == sw.fifo \o call.arg
                 recs == Len(all) \div sw.width
                 hdr == IF SwHeaderDue THEN 1 ELSE 0
             IN  /\ call.n = Len(call.arg) /\ call.err = ""
                 /\ Len(swSink') = Len(swSink) + hdr + recs
                 /\ SubSeq(swSink', 1, Len(swSink)) = swSink
                 /\ hdr = 1 => swSink'[Len(swSink) + 1][2] = "0"
                 /\ \A i \in 1..recs :
                        IsSrecDataText(swSink'[Len(swSink) + hdr + i], sw.addrMode, sw.width)
                 /\ sw'.addr = u32Add(sw.addr, recs * sw.width)
                 /\ sw'.fifo = SubSeq(all, recs * sw.width + 1, Len(all))
                 /\ Len(sw'.fifo) = Len(all) % sw.width
                 /\ Len(sw'.fifo) < sw.width]_vars

\* C17 witness: 40 bytes written to an ihex Writer of width 16 with one byte
\* pending have gone out as two records, nine bytes left pending
C17_Witness ==
    /\ iw.width = DefaultWidth
    /\ IwOps = <<<<"Write", <<1>>, -1>>, <<"Write", IwMidPayload, -1>>>>
    /\ IwLast.n = 40 /\ IwLast.err = ""
    /\ Len(iwSink) = 2
    /\ Len(iw.fifo) = 9
    /\ iw.addr = 32
-----------------------------------------------------------------------------
(* srec count record development: a Writer on which SetCountEmit was       *)
(* called and a number of one-byte Data records were emitted takes Write,   *)
(* Flush and Close calls.  The lines of the earlier records are left out of *)
(* the sink; the history's entry "Records" holds their number.              *)

\* the first count that does not fit the three count bytes of an S6 record
CtBig == 16777216

\* the Data records emitted before the calls, around the two limits
CtCounts == {0, U16Mod - 2, U16Mod - 1, U16Mod, CtBig - 2, CtBig - 1}

CtInit ==
    /\ \E aMode \in {Addr16, Addr32}, c \in CtCounts :
         /\ sw = [srec_NewWriter(aMode) EXCEPT !.emitCountRec = TRUE,
                                               !.count = U32(c), !.addr = U32(c)]
         /\ swHist = <<Call("SetCountEmit", <<>>, -1, 0, ""), Call("Records", c, -1, c, "")>>
    /\ swSink = <<>>
    /\ swRead = NotRead
    /\ ckIdle /\ coIdle /\ rdIdle /\ iwIdle /\ cuIdle /\ wlIdle

CtNext == SwWrite \/ SwFlush \/ SwClose \/ SwReadBack

SpecSrecCount == CtInit /\ [][CtNext]_vars

\* the Data records emitted on the Writer so far
CtEmitted == swHist[2].arg + Cardinality(SwDataLines)

\* the first Close has returned nil: the count record is the last line
CtClosed ==
    /\ SwLast.op = "Close" /\ SwLast.err = ""
    /\ \A k \in 1..(Len(swHist) - 1) : swHist[k].op # "Close"

\* the last line of the sink without its newline, decoded
CtRecord == srec_decodeRecord(SubSeq(swSink[Len(swSink)], 1, Len(swSink[Len(swSink)]) - 1))

-----------------------------------------------------------------------------
(* Claims on the records the Writers emit, read from the text of the sink.  *)

\* the address field and the payload of the text of an srec Data record
SrecAddrOf(t, aMode) == srec_addrValue(SubSeq(t, 5, 4 + aMode \div 4))
SrecPayloadOf(t, aMode) == DecodeString(SubSeq(t, 5 + aMode \div 4, Len(t) - 3)).bytes

\* a 32-bit cursor cut to the address field of a mode
SrecTrunc(a, aMode) ==
    CASE aMode = Addr16 -> <<0, a[2]>>
      [] aMode = Addr24 -> <<a[1] % ByteMod, a[2]>>
      [] aMode = Addr32 -> a

\* C22: SetAddress(a) on an srec Writer with bytes pending emits them as one
\* Data record at the old cursor (cut to the address field) before the cursor
\* becomes a, given a sink that accepts the write; after every SetAddress the
\* holding buffer is empty, so no record holds bytes written before the call
\* together with bytes written after it.
C22_SetAddressFlushes ==
    [][SwCall("SetAddress") =>
          /\ sw'.fifo = <<>>
          /\ sw'.addr = swHist'[Len(swHist')].arg
          /\ swHist'[Len(swHist')].rej = -1 =>
               IF Len(sw.fifo) > 0
               THEN /\ Len(swSink') = Len(swSink) + 1
                    /\ SubSeq(swSink', 1, Len(swSink)) = swSink
                    /\ swSink'[Len(swSink')][2] = DataDigit(sw.addrMode)
                    /\ SrecAddrOf(swSink'[Len(swSink')], sw.addrMode) = SrecTrunc(sw.addr, sw.addrMode)
                    /\ SrecPayloadOf(swSink'[Len(swSink')], sw.addrMode) = sw.fifo
               ELSE swSink' = swSink]_vars

\* C22 witness: one byte written at 0x1000 was pending when SetAddress was
\* called again, and went out as a record at 0x1000
C22_Witness ==
    /\ Len(swHist) = 3
    /\ swHist[1].op = "SetAddress" /\ swHist[1].arg = U32(4096)
    /\ swHist[2].op = "Write" /\ swHist[2].arg = <<1>>
    /\ swHist[3].op = "SetAddress" /\ swHist[3].rej = -1
    /\ sw.addrMode = Addr16
    /\ swSink = << <<"S", "1", "0", "4", "1", "0", "0", "0", "0", "1", "e", "a", "\n">> >>
    /\ sw.fifo = <<>>
-----------------------------------------------------------------------------
(* Decoder development: decodeRecord of either package is called on a line  *)
(* built from a header, a length byte, an address field, payload bytes and  *)
(* the checksum of that body, so that every line has a valid checksum.      *)

MaxDcLen == 7

\* the length bytes written into the lines, whatever the payload
DcLens == 0..MaxDcLen

DcPayloads == {<<>>, <<1>>, <<2, 3>>, <<4, 5, 6>>}

\* the two characters an srec line starts with: the nine types of the
\* package, S4, and headers that do not start with S or are no type digit
DcKnown ==
    {<<"S", "0">>, <<"S", "1">>, <<"S", "2">>, <<"S", "3">>, <<"S", "5">>,
     <<"S", "6">>, <<"S", "7">>, <<"S", "8">>, <<"S", "9">>}
DcHeaders == DcKnown \cup {<<"S", "4">>, <<"S", "A">>, <<"X", "1">>, <<"s", "1">>}

\* an srec line: the header and the hex digits of the body and its checksum
DcSrecLine(header, decl, addrLen, p) ==
    LET body == <<decl>> \o [k \in 1..addrLen |-> IF k = addrLen THEN 16 ELSE 0] \o p
    IN  header \o ToUpper(EncodeToString(Append(body, srec_calcChecksum(body))))

\* an ihex line: the colon and the hex digits of the body and its checksum
DcIhexLine(decl, typ, p) == IhexLine(<<decl, 0, 16, typ>> \o p)

DcLines(fam) ==
    IF fam = "srec"
    THEN {DcSrecLine(h, decl, n, p) : h \in DcHeaders, decl \in DcLens, n \in 2..4, p \in DcPayloads}
    ELSE {DcIhexLine(decl, typ, p) : decl \in DcLens, typ \in {Data, EndOfFile}, p \in DcPayloads}

DcDecode ==
    /\ ~cuRes.done
    /\ \E fam \in {"srec", "ihex"} :
         \E L \in DcLines(fam) :
           /\ cuFam' = fam
           /\ cuLine' = L
           /\ cuBad' = L
           /\ cuRes' = CuDecode(fam, L)
    /\ UNCHANGED <<ckVars, coVars, rdVars, iwVars, swVars, wl>>

DcNext == DcDecode

SpecDecode == CuInit /\ [][DcNext]_vars

\* the bytes of the decoded line: those after the colon, or after the header
DcBytes == DecodeString(SubSeq(cuLine, IF cuFam = "ihex" THEN 2 ELSE 3, Len(cuLine))).bytes

\* the length byte agrees with the bytes present: the payload bytes of an
\* ihex line (all but length, address, type and checksum), the bytes after
\* the length byte of an srec line (address, payload and checksum)
DcLengthAgrees ==
    IF cuFam = "ihex" THEN DcBytes[1] = Len(DcBytes) - 5
    ELSE DcBytes[1] = Len(DcBytes) - 1

\* C23: a line with a valid checksum whose length byte disagrees with the
\* bytes present, fewer or more, is rejected by decodeRecord with an error
\* and no record.
C23_LengthValidated ==
    (cuRes.done /\ (cuFam = "srec" => SubSeq(cuLine, 1, 2) \in DcKnown) /\ ~DcLengthAgrees) =>
        cuRes.err # ""

\* C24: for every srec line whose header is not one of S0, S1, S2, S3, S5,
\* S6, S7, S8, S9, decodeRecord returns the unknown-type error and no record.
C24_UnknownTypeRejected ==
    (cuRes.done /\ cuFam = "srec" /\ SubSeq(cuLine, 1, 2) \notin DcKnown) =>
        cuRes.err = "Unknown SREC type"
-----------------------------------------------------------------------------
(* Read-all development: the lines of a file, as strings.Split leaves them, *)
(* are read by srec processRecords or by the loop of ihex ReadFile.  rdRes  *)
(* holds the package, the result and whether the call ended in a panic.     *)

\* the lines of TestProcessRecords after the Split: six records and the
\* empty string after the last newline
TestBulkSrec ==
    <<TestLineS0, TestLineS1a, TestLineS1b, TestLineS1c, TestLineS5, TestLineS9, <<>>>>

\* ihex lines: the empty one, two records, a bad checksum, a non-hex
\* character, and the marker alone
LnIhexCorpus ==
    {<<>>, IhexLine(<<2, 0, 16, Data, 171, 205>>), IhexLine(<<0, 0, 0, EndOfFile>>),
     <<":", "0", "0", "0", "0", "0", "0", "0", "1", "F", "E">>,
     <<":", "0", "0", "0", "0", "0", "0", "0", "1", "F", "g">>,
     <<":">>}

LnCorpus(fam) == IF fam = "srec" THEN RdCorpus ELSE LnIhexCorpus

\* processRecords, or the loop of ihex ReadFile, on a list of lines
LnRead(fam, records) ==
    IF fam = "srec"
    THEN LET r == srec_processRecords(records)
         IN  [fam |-> fam, err |-> r.err, recs |-> r.recs, panic |-> FALSE]
    ELSE LET r == ihex_readLoop(records, 1, <<>>)
         IN  [fam |-> fam, err |-> r.err, recs |-> r.recs, panic |-> r.panic]

\* one more line in the file, which is then read
LnAppend ==
    /\ Len(rdLines) < MaxLines
    /\ \E fam \in (IF rdLines = <<>> THEN {"srec", "ihex"} ELSE {rdRes.fam}) :
         \E line \in LnCorpus(fam) :
           /\ rdLines' = Append(rdLines, line)
           /\ rdRes' = LnRead(fam, Append(rdLines, line))
    /\ UNCHANGED <<rdOut, ckVars, coVars, iwVars, swVars, cuVars, wl>>

\* the file of TestProcessRecords is read
LnTest ==
    /\ rdLines = <<>>
    /\ rdLines' = TestBulkSrec
    /\ rdRes' = LnRead("srec", TestBulkSrec)
    /\ UNCHANGED <<rdOut, ckVars, coVars, iwVars, swVars, cuVars, wl>>

LnNext == LnAppend \/ LnTest

SpecLines == RdInit /\ [][LnNext]_vars

\* the non-empty lines, and decodeRecord of the k-th of them
LnNonEmpty == SelectSeq(rdLines, LAMBDA l : Len(l) > 0)
LnDecoded(k) == CuDecode(rdRes.fam, LnNonEmpty[k])

\* the non-empty lines that do not decode
LnFailing == {k \in 1..Len(LnNonEmpty) : LnDecoded(k).err # ""}

\* C25: empty lines are skipped; if every non-empty line decodes, the result
\* is one record per non-empty line, in line order, and no error (6 records
\* for the lines of TestProcessRecords); otherwise the call returns no
\* records and the error of the first line that does not decode.
C25_ReadAll ==
    rdLines # <<>> =>
        /\ ~rdRes.panic
        /\ IF LnFailing = {}
           THEN /\ rdRes.err = ""
                /\ rdRes.recs = [k \in 1..Len(LnNonEmpty) |-> LnDecoded(k).rec]
           ELSE LET f == CHOOSE k \in LnFailing : \A j \in LnFailing : k <= j
                IN  rdRes.err = LnDecoded(f).err /\ rdRes.recs = <<>>
        /\ rdLines = TestBulkSrec => Len(rdRes.recs) = 6
-----------------------------------------------------------------------------
(* Claims on the text of the emitted lines, both Writer families.           *)

\* the digits of upper-case hexadecimal
UpperDigits == {HexUpper[k] : k \in 1..16}

\* a line of the stream: the marker (":" for ihex, "S" and the type digit for
\* srec), an even number of upper-case hex digits, a newline
IsWireLine(t, marker) ==
    /\ Len(t) > Len(marker)
    /\ SubSeq(t, 1, Len(marker)) = marker
    /\ t[Len(t)] = "\n"
    /\ (Len(t) - Len(marker) - 1) % 2 = 0
    /\ \A k \in (Len(marker) + 1)..(Len(t) - 1) : t[k] \in UpperDigits

\* C26: every line emitted by either Writer, of every record kind, is the
\* marker of the format, an even number of hex digits out of 0-9 and
\* upper-case A-F, and a newline; no lower-case hex digit is emitted.
C26_WireFormat ==
    /\ \A i \in 1..Len(iwSink) : IsWireLine(iwSink[i], <<":">>)
    /\ \A i \in 1..Len(swSink) :
         /\ swSink[i][2] \in {"0", "1", "2", "3", "5", "6", "7", "8", "9"}
         /\ IsWireLine(swSink[i], <<"S", swSink[i][2]>>)

\* the bytes of a line after its marker, and all of them but the last
WireBytes(t, marker) == DecodeString(SubSeq(t, Len(marker) + 1, Len(t) - 1)).bytes
WireBody(t, marker) == SubSeq(WireBytes(t, marker), 1, Len(WireBytes(t, marker)) - 1)

\* the bytes of the address field of an srec Data record, by its type digit
SrecAddrBytes(digit) == CASE digit = "1" -> 2 [] digit = "2" -> 3 [] digit = "3" -> 4

\* C27: every Data record emitted by either Writer (width such that the
\* length fits one byte) has a length byte equal to the payload length
\* (ihex) or to payload length + address-field bytes + 1 (srec: +3 for
\* Addr16, +4 for Addr24, +5 for Addr32), and a final byte equal to the
\* checksum of the format over all bytes before it.
C27_RecordInvariant ==
    /\ iw.width < ByteMod =>
         \A i \in 1..Len(iwSink) :
           LET b == WireBytes(iwSink[i], <<":">>)
           IN  (b[4] = Data /\ Len(b) - 5 \in 1..iw.width) =>
                 /\ b[1] = Len(b) - 5
                 /\ b[Len(b)] = ihex_calcChecksum(WireBody(iwSink[i], <<":">>))
    /\ \A i \in SwDataLines :
         LET marker == <<"S", swSink[i][2]>>
             b == WireBytes(swSink[i], marker)
             len == Len(b) - 2 - SrecAddrBytes(swSink[i][2])
         IN  /\ b[1] = len + SrecAddrBytes(swSink[i][2]) + 1
             /\ b[Len(b)] = srec_calcChecksum(WireBody(swSink[i], marker))
-----------------------------------------------------------------------------
(* Claims on the address cursor and on the holding buffer, both families.   *)

\* type, address field, payload length and payload of an ihex line, from
\* the places of the fields in its text
IhexTypeOf(t) == hexValue(SubSeq(t, 8, 9), 1, 0)
IhexAddrOf(t) == hexValue(SubSeq(t, 4, 7), 1, 0)
IhexLenOf(t) == (Len(t) - 12) \div 2
IhexPayloadText(t) == SubSeq(t, 10, Len(t) - 3)

\* the Data lines a call appends to the stream, ihex and srec
IwAddedData ==
    SelectSeq([i \in 1..(Len(iwSink') - Len(iwSink)) |-> iwSink'[Len(iwSink) + i]],
              LAMBDA t : IhexTypeOf(t) = Data)
SwAddedData ==
    SelectSeq([i \in 1..(Len(swSink') - Len(swSink)) |-> swSink'[Len(swSink) + i]],
              LAMBDA t : t[2] \in {"1", "2", "3"})


\* the record types of the two formats that carry an address extension
IhexExtended == {2, 4}

\* C28: the address field of an emitted Data record is the cursor (modulo
\* 2^16 for ihex; cut to the low 16/24/32 bits of the 32-bit cursor for srec
\* Addr16/Addr24/Addr32), and the field of the next Data record, with no
\* SetAddress between, is the field of the previous one plus its payload
\* length; the cursor advances only by records that were written, and no
\* extended-address record is emitted when the field wraps.
C28_CursorArithmetic ==
    [][/\ LET D == IwAddedData
          IN  /\ \A j \in 1..Len(D) :
                   IhexAddrOf(D[j]) =
                     IF j = 1 THEN iw.addr
                     ELSE (IhexAddrOf(D[j - 1]) + IhexLenOf(D[j - 1])) % U16Mod
              /\ ~IwCall("SetAddress") =>
                   iw'.addr = IF D = <<>> THEN iw.addr
                              ELSE (IhexAddrOf(D[Len(D)]) + IhexLenOf(D[Len(D)])) % U16Mod
              /\ \A i \in 1..Len(iwSink') : IhexTypeOf(iwSink'[i]) \notin IhexExtended
       /\ LET D == SwAddedData
              aMode == sw.addrMode
              after(j) == u32Add(SrecAddrOf(D[j], aMode), Len(SrecPayloadOf(D[j], aMode)))
          IN  /\ \A j \in 1..Len(D) :
                   /\ D[j][2] = DataDigit(aMode)
                   /\ SrecAddrOf(D[j], aMode) =
                        SrecTrunc(IF j = 1 THEN sw.addr ELSE after(j - 1), aMode)
              /\ ~SwCall("SetAddress") =>
                   /\ D = <<>> => sw'.addr = sw.addr
                   /\ D # <<>> => /\ SrecTrunc(sw'.addr, aMode) = SrecTrunc(after(Len(D)), aMode)
                                  /\ sw'.addr[1] \in {sw.addr[1], (sw.addr[1] + 1) % U16Mod}]_vars

\* C28 witness: an ihex Writer of width 1 set to 0xFFFF has written two
\* bytes; the second record is at 0x0000 and the cursor is at 0x0001
C28_Witness ==
    /\ Len(iwHist) = 2
    /\ iwHist[1].op = "SetAddress" /\ iwHist[1].arg = U16Mod - 1
    /\ iwHist[2].op = "Write" /\ iwHist[2].arg = <<2, 3>> /\ iwHist[2].err = ""
    /\ iwSink = <<<<":", "0", "1", "F", "F", "F", "F", "0", "0", "0", "2", "F", "F", "\n">>,
                  <<":", "0", "1", "0", "0", "0", "0", "0", "0", "0", "3", "F", "C", "\n">>>>
    /\ iw.addr = 1

\* the hex text of the payloads of the Data records of the streams, in
\* emission order
IwTextOut ==
    LET D == SelectSeq(iwSink, LAMBDA t : IhexTypeOf(t) = Data)
    IN  Concat([j \in 1..Len(D) |-> IhexPayloadText(D[j])])
SwTextOut ==
    LET D == SelectSeq(swSink, LAMBDA t : t[2] \in {"1", "2", "3"})
    IN  Concat([j \in 1..Len(D) |->
                  SubSeq(D[j], 5 + 2 * SrecAddrBytes(D[j][2]), Len(D[j]) - 3)])

\* the byte slices passed to Write, in call order, as one sequence
WrittenIn(hist) ==
    LET W == SelectSeq(hist, LAMBDA c : c.op = "Write")
    IN  Concat([j \in 1..Len(W) |-> W[j].arg])

\* bytes as hex text, two digits of the given alphabet per byte
HexText(b, digits) ==
    [k \in 1..(2 * Len(b)) |->
        IF k % 2 = 1 THEN digits[(b[(k + 1) \div 2] \div 16) + 1]
                     ELSE digits[(b[k \div 2] % 16) + 1]]

\* text is the hex of the first bytes of written, and fifo holds the rest
Conserved(text, fifo, written, digits) ==
    LET out == Len(written) - Len(fifo)
    IN  /\ out >= 0
        /\ fifo = SubSeq(written, out + 1, Len(written))
        /\ text = HexText(SubSeq(written, 1, out), digits)

\* every call so far was made on an open Writer with a sink that accepts
OpenAccepting(hist) == \A k \in 1..Len(hist) : hist[k].op # "Close" /\ hist[k].rej = -1

\* C29: with a sink that accepts every write, after any calls of Write,
\* Flush and SetAddress on an open Writer of either family, the payloads of
\* the emitted Data records in emission order followed by the bytes pending
\* in the holding buffer are the byte slices passed to Write in call order:
\* no byte is lost, duplicated or reordered.
C29_FifoConservation ==
    /\ OpenAccepting(iwHist) => Conserved(IwTextOut, iw.fifo, WrittenIn(iwHist), HexUpper)
    /\ OpenAccepting(swHist) => Conserved(SwTextOut, sw.fifo, WrittenIn(swHist), HexLower)

\* C29 witness: an srec Writer has taken four bytes, an address and one
\* byte more; the four bytes are out in a record and one byte is pending
C29_Witness ==
    /\ Len(swHist) = 3
    /\ OpenAccepting(swHist)
    /\ swHist[1].op = "Write" /\ swHist[1].arg = <<2, 3, 4, 5>>
    /\ swHist[2].op = "SetAddress"
    /\ swHist[3].op = "Write" /\ swHist[3].arg = <<1>>
    /\ SwTextOut = <<"0", "2", "0", "3", "0", "4", "0", "5">>
    /\ sw.fifo = <<1>>

\* C30: ihex SetAddress(a) changes the cursor only: it emits no record and
\* leaves the holding buffer as it was, so bytes pending before the call
\* are emitted by the next Write, Flush or Close in a record addressed
\* from a.
C30_SetAddressCursorOnly ==
    [][/\ IwCall("SetAddress") =>
            /\ iwSink' = iwSink
            /\ iw' = [iw EXCEPT !.addr = iwHist'[Len(iwHist')].arg]
       /\ (/\ Len(iwHist) > 0 /\ iwHist[Len(iwHist)].op = "SetAddress"
           /\ Len(iw.fifo) > 0
           /\ IwAddedData # <<>>) =>
            LET first == IwAddedData[1]
                n == Min(Len(iw.fifo), IhexLenOf(first))
            IN  /\ IhexAddrOf(first) = iwHist[Len(iwHist)].arg
                /\ DecodeString(SubSeq(first, 10, 9 + 2 * n)).bytes = SubSeq(iw.fifo, 1, n)]_vars

\* C30 witness: one byte was written at address 0, then SetAddress(0x1234)
\* and Flush: the byte is in a record at 0x1234
C30_Witness ==
    /\ Len(iwHist) = 3
    /\ iwHist[1].op = "Write" /\ iwHist[1].arg = <<1>>
    /\ iwHist[2].op = "SetAddress" /\ iwHist[2].arg = 4660
    /\ iwHist[3].op = "Flush" /\ iwHist[3].err = ""
    /\ iwSink = <<<<":", "0", "1", "1", "2", "3", "4", "0", "0", "0", "1", "B", "8", "\n">>>>
-----------------------------------------------------------------------------
(* Payload-bound development: CoalesceDataRecs on records whose payloads    *)
(* are as long as the one-byte length field allows.                         *)

MaxJbRecs == 2

\* the longest payload of a record: the length field is one byte
MaxPayload == ByteMod - 1

\* a payload of n bytes
JbPayload(n) == [k \in 1..n |-> k % ByteMod]

JbLens == {0, 1, 128, MaxPayload}

JbAddrs(fam) == IF fam = "srec" THEN {U32(0), U32(128), U32(MaxPayload)}
                ELSE {0, 128, MaxPayload}

JbRecs(fam) ==
    IF fam = "srec"
    THEN {HexRec(a, t, JbPayload(n)) : a \in JbAddrs(fam), t \in {S1Data, S3Data}, n \in JbLens}
         \cup {HexRec(U32(0), S9Start, <<>>)}
    ELSE {HexRec(a, Data, JbPayload(n)) : a \in JbAddrs(fam), n \in JbLens}
         \cup {HexRec(0, EndOfFile, <<>>)}

JbAppend ==
    /\ Len(coList) < MaxJbRecs
    /\ \E r \in JbRecs(coFam) :
         /\ coList' = Append(coList, r)
         /\ coOut' = Coalesce(coFam, coList')
         /\ coOut2' = Coalesce(coFam, coOut')
    /\ UNCHANGED <<coFam, ckVars, rdVars, iwVars, swVars, cuVars, wl>>

JbNext == JbAppend

SpecJumbo == CoInit /\ [][JbNext]_vars

\* C31: every record in the output of CoalesceDataRecs has a payload of 0
\* to 255 bytes, for every input whose records each have one.
C31_PayloadBound ==
    (\A k \in 1..Len(coList) : Len(coList[k].Data) <= MaxPayload)
        => \A k \in 1..Len(coOut) : Len(coOut[k].Data) <= MaxPayload
-----------------------------------------------------------------------------
(* Claims on calls that the sink fails.                                     *)

\* the number of payload bytes in the Data lines a call appends
IwAddedLen == Len(Concat([j \in 1..Len(IwAddedData) |-> IhexPayloadText(IwAddedData[j])])) \div 2
SwAddedLen ==
    Len(Concat([j \in 1..Len(SwAddedData) |-> SrecPayloadOf(SwAddedData[j], sw.addrMode)]))

\* the bytes a call passes to the Writer
PassedIn(call) == IF call.op = "Write" THEN call.arg ELSE <<>>

\* C33: when the sink rejects the write of a Data record during Write or
\* Flush, in either Writer family, the call returns its error at once: the
\* records emitted before stay in the sink, address cursor and record count
\* have advanced for the records written only, and the bytes of the failed
\* record and all bytes after them are still in the holding buffer.
C33_SinkFailure ==
    [][/\ ((IwCall("Write") \/ IwCall("Flush")) /\ iwHist'[Len(iwHist')].err # "") =>
            LET all == iw.fifo \o PassedIn(iwHist'[Len(iwHist')])
            IN  /\ SubSeq(iwSink', 1, Len(iwSink)) = iwSink
                /\ iw'.addr = (iw.addr + IwAddedLen) % U16Mod
                /\ iw'.fifo = SubSeq(all, IwAddedLen + 1, Len(all))
       /\ ((SwCall("Write") \/ SwCall("Flush")) /\ ~sw.fin
              /\ swHist'[Len(swHist')].err # "") =>
            LET all == sw.fifo \o PassedIn(swHist'[Len(swHist')])
            IN  /\ SubSeq(swSink', 1, Len(swSink)) = swSink
                /\ sw'.addr = u32Add(sw.addr, SwAddedLen)
                /\ sw'.count = u32Add(sw.count, Len(SwAddedData))
                /\ sw'.fifo = SubSeq(all, SwAddedLen + 1, Len(all))]_vars

\* C34: if emitting the pending remainder fails inside the ihex Close, Close
\* returns an error and does not emit the end-of-file record; Close returns
\* nil only if every pending byte and the end-of-file record were written.
C34_CloseSurfacesFlushFailure ==
    [][IwCall("Close") =>
         LET call == iwHist'[Len(iwHist')]
             added == Len(iwSink') - Len(iwSink)
         IN  /\ (Len(iw.fifo) > 0 /\ IwAddedData = <<>>) =>
                   call.err # "" /\ iwSink' = iwSink
             /\ call.err = "" =>
                   /\ added > 0 /\ iwSink'[Len(iwSink')] = IwEofText
                   /\ IwAddedLen = Len(iw.fifo)]_vars
-----------------------------------------------------------------------------
(* Write-loop development: a Write call of either Writer, one iteration of  *)
(* its emit loop at a time.  The records written are counted, not kept; the *)
(* count stops at MaxEmitted, "MaxEmitted or more".                         *)

MaxWlCalls == 2
MaxEmitted == 3

\* the widths NewWriterWidth is called with: it stores any int
WlWidths == {0, 1, 2, DefaultWidth}

WlPayloads == {<<>>, <<1>>, <<2, 3>>, <<4, 5, 6, 7, 8>>}

\* the Writers as their constructors return them
WlWriters ==
    {[fam |-> "ihex", x |-> ihex_NewWriterWidth(width)] : width \in WlWidths}
    \cup {[fam |-> "srec", x |-> srec_NewWriter(aMode)] : aMode \in {Addr16, Addr32}}

\* one test of the loop condition of Write and, if it holds, one pass
\* through the body: more is FALSE when the call returns
writeIter(fam, x, xferLen, rej) ==
    IF Len(x.fifo) < x.width
    THEN [x |-> x, n |-> xferLen, err |-> "", more |-> FALSE, lines |-> 0]
    ELSE LET p == SubSeq(x.fifo, 1, x.width)
             x1 == [x EXCEPT !.fifo = SubSeq(@, x.width + 1, Len(@))]
             e == IF fam = "ihex" THEN ihex_emitDataRecord(x1, <<>>, p, rej # 0)
                  ELSE srec_emitDataRecord(x1, <<>>, p, rej # 0)
         IN  IF e.err # ""
             THEN [x |-> e.x, n |-> xferLen, err |-> e.err, more |-> FALSE, lines |-> 0]
             ELSE [x |-> e.x, n |-> xferLen + x.width, err |-> "", more |-> TRUE,
                   lines |-> Len(e.sink)]

WlInit ==
    /\ \E w \in WlWriters :
         wl = [fam |-> w.fam, x |-> w.x, pc |-> "idle", rej |-> -1,
               n |-> 0, err |-> "", calls |-> 0, emitted |-> 0]
    /\ ckIdle /\ coIdle /\ rdIdle /\ iwIdle /\ swIdle /\ cuIdle

\* Write(p) is called: p goes into the fifo and the loop is entered
WlWrite ==
    /\ wl.pc = "idle"
    /\ wl.calls < MaxWlCalls
    /\ \E p \in WlPayloads, rej \in {-1, 0} :
         wl' = [wl EXCEPT !.x.fifo = @ \o p, !.pc = "loop", !.rej = rej,
                          !.n = Len(p), !.err = "", !.calls = @ + 1, !.emitted = 0]
    /\ UNCHANGED <<ckVars, coVars, rdVars, iwVars, swVars, cuVars>>

\* one iteration of the loop, or its end and the return of the call with
\* (len(p), nil) or (bytes emitted by this call, err)
WlLoop ==
    /\ wl.pc = "loop"
    /\ LET xferLen == Min(wl.emitted, MaxEmitted) * wl.x.width
           r == writeIter(wl.fam, wl.x, xferLen, wl.rej)
       IN  wl' = [wl EXCEPT !.x = r.x,
                            !.pc = IF r.more THEN "loop" ELSE "idle",
                            !.rej = IF r.more THEN NextRej(@) ELSE @,
                            !.n = IF r.err = "" THEN @ ELSE r.n,
                            !.err = r.err,
                            !.emitted = Min(@ + r.lines, MaxEmitted)]
    /\ UNCHANGED <<ckVars, coVars, rdVars, iwVars, swVars, cuVars>>

WlNext == WlWrite \/ WlLoop

SpecWriteLoop == WlInit /\ [][WlNext]_vars

\* C35: Write terminates: for every width the constructors accept, width 0
\* of NewWriterWidth included, and every input slice, Write returns after
\* finitely many records.  The fifo is all the loop reads, so this is stated
\* by its variant: a pass through the loop that does not return leaves
\* fewer bytes in the fifo than it found.
C35_WriteTerminates ==
    [][(wl.pc = "loop" /\ wl'.pc = "loop") => Len(wl'.x.fifo) < Len(wl.x.fifo)]_vars
-----------------------------------------------------------------------------
(* Short-line development: ihex decodeRecord is called on a marker followed *)
(* by a few characters, fewer than a record needs: no character at all, an  *)
(* odd number of digits, a character that is no hex digit, a body that ends *)
(* inside the length, address or type field.                                *)

MaxShLen == 5

ShChars == {"0", "F", "g"}

\* the first character of the line, which decodeRecord drops unread
ShMarkers == {":", "S"}

\* the empty Data record at address 0, and what is left of it when the line
\* is cut short
ShEmptyData == IhexLine(<<0, 0, 0, Data>>)

ShLines ==
    {<<mk>> \o t : mk \in ShMarkers, t \in UNION {[1..n -> ShChars] : n \in 0..MaxShLen}}
    \cup {SubSeq(ShEmptyData, 1, n) : n \in 1..Len(ShEmptyData)}

ShDecode ==
    /\ ~cuRes.done
    /\ \E L \in ShLines :
         LET d == ihex_decodeRecord(L)
         IN  /\ cuFam' = "ihex"
             /\ cuLine' = L
             /\ cuBad' = L
             /\ cuRes' = [done |-> TRUE, err |-> d.err, rec |-> d.rec, panic |-> d.panic]
    /\ UNCHANGED <<ckVars, coVars, rdVars, iwVars, swVars, wl>>

ShNext == ShDecode

SpecShort == CuInit /\ [][ShNext]_vars

\* the digits present are fewer than those of length, address, type and
\* checksum
ShTooShort == Len(cuLine) - 1 < 10

\* C36: ihex decodeRecord never ends in a run-time panic: for every line it
\* returns a record or an error, and for a line of the marker alone or of a
\* body shorter than length, address, type and checksum it returns an error.
C36_NoPanic ==
    cuRes.done =>
        /\ ~cuRes.panic
        /\ ShTooShort => cuRes.err # ""
====
